---- MODULE Spec2Model ----
(***************************************************************************)
(* ESFMu: the per-sample synthesis core (src/core/esfm.c) and the register *)
(* file (src/core/esfm_registers.c) of the ESS ESFM emulator, as a state   *)
(* machine.  C integers are modelled by mathematical integers with the      *)
(* masks, truncations and conversions of the source written out.  C bool    *)
(* (a uint_fast8_t in this code base) is the integer 0 or 1.                *)
(***************************************************************************)
EXTENDS Integers, Sequences, FiniteSets, TLC

(***************************************************************************)
(* Bit-level helpers.  x >> n on a signed value is arithmetic (floor), as   *)
(* every supported compiler implements it; \div floors in TLA+.             *)
(***************************************************************************)
Pow2(n) == 2 ^ n

Shr(x, n) == IF n > 30 THEN (IF x < 0 THEN -1 ELSE 0) ELSE x \div Pow2(n)

Bit(x, n) == (x \div Pow2(n)) % 2

Xor1(a, b) == (a + b) % 2

Or1(a, b) == IF a + b > 0 THEN 1 ELSE 0

Not01(a) == IF a = 0 THEN 1 ELSE 0

\* Conversion of a mathematical integer to a two's complement integer of `bits` bits.
ToSigned(x, bits) ==
    LET m == x % Pow2(bits)
    IN  IF m >= Pow2(bits - 1) THEN m - Pow2(bits) ELSE m

(***************************************************************************)
(* esfm.h: envelope generator states.                                       *)
(***************************************************************************)
EG_ATTACK == 0

EG_DECAY == 1

EG_SUSTAIN == 2

EG_RELEASE == 3

(***************************************************************************)
(* ROM tables (0-based in C, 1-based tuples here).                          *)
(***************************************************************************)
logsinrom == <<
    2137, 1731, 1543, 1419, 1326, 1252, 1190, 1137, 1091, 1050, 1013, 979, 949, 920, 894, 869,
    846, 825, 804, 785, 767, 749, 732, 717, 701, 687, 672, 659, 646, 633, 621, 609,
    598, 587, 576, 566, 556, 546, 536, 527, 518, 509, 501, 492, 484, 476, 468, 461,
    453, 446, 439, 432, 425, 418, 411, 405, 399, 392, 386, 380, 375, 369, 363, 358,
    352, 347, 341, 336, 331, 326, 321, 316, 311, 307, 302, 297, 293, 289, 284, 280,
    276, 271, 267, 263, 259, 255, 251, 248, 244, 240, 236, 233, 229, 226, 222, 219,
    215, 212, 209, 205, 202, 199, 196, 193, 190, 187, 184, 181, 178, 175, 172, 169,
    167, 164, 161, 159, 156, 153, 151, 148, 146, 143, 141, 138, 136, 134, 131, 129,
    127, 125, 122, 120, 118, 116, 114, 112, 110, 108, 106, 104, 102, 100, 98, 96,
    94, 92, 91, 89, 87, 85, 83, 82, 80, 78, 77, 75, 74, 72, 70, 69,
    67, 66, 64, 63, 62, 60, 59, 57, 56, 55, 53, 52, 51, 49, 48, 47,
    46, 45, 43, 42, 41, 40, 39, 38, 37, 36, 35, 34, 33, 32, 31, 30,
    29, 28, 27, 26, 25, 24, 23, 23, 22, 21, 20, 20, 19, 18, 17, 17,
    16, 15, 15, 14, 13, 13, 12, 12, 11, 10, 10, 9, 9, 8, 8, 7,
    7, 7, 6, 6, 5, 5, 5, 4, 4, 4, 3, 3, 3, 2, 2, 2,
    2, 1, 1, 1, 1, 1, 1, 1, 0, 0, 0, 0, 0, 0, 0, 0 >>

exprom == <<
    2042, 2037, 2031, 2026, 2020, 2015, 2010, 2004, 1999, 1993, 1988, 1983, 1977, 1972, 1966, 1961,
    1956, 1951, 1945, 1940, 1935, 1930, 1924, 1919, 1914, 1909, 1904, 1898, 1893, 1888, 1883, 1878,
    1873, 1868, 1863, 1858, 1853, 1848, 1843, 1838, 1833, 1828, 1823, 1818, 1813, 1808, 1803, 1798,
    1794, 1789, 1784, 1779, 1774, 1769, 1765, 1760, 1755, 1750, 1746, 1741, 1736, 1732, 1727, 1722,
    1717, 1713, 1708, 1704, 1699, 1694, 1690, 1685, 1681, 1676, 1672, 1667, 1663, 1658, 1654, 1649,
    1645, 1640, 1636, 1631, 1627, 1623, 1618, 1614, 1609, 1605, 1601, 1596, 1592, 1588, 1584, 1579,
    1575, 1571, 1566, 1562, 1558, 1554, 1550, 1545, 1541, 1537, 1533, 1529, 1525, 1520, 1516, 1512,
    1508, 1504, 1500, 1496, 1492, 1488, 1484, 1480, 1476, 1472, 1468, 1464, 1460, 1456, 1452, 1448,
    1444, 1440, 1436, 1433, 1429, 1425, 1421, 1417, 1413, 1409, 1406, 1402, 1398, 1394, 1391, 1387,
    1383, 1379, 1376, 1372, 1368, 1364, 1361, 1357, 1353, 1350, 1346, 1342, 1339, 1335, 1332, 1328,
    1324, 1321, 1317, 1314, 1310, 1307, 1303, 1300, 1296, 1292, 1289, 1286, 1282, 1279, 1275, 1272,
    1268, 1265, 1261, 1258, 1255, 1251, 1248, 1244, 1241, 1238, 1234, 1231, 1228, 1224, 1221, 1218,
    1214, 1211, 1208, 1205, 1201, 1198, 1195, 1192, 1188, 1185, 1182, 1179, 1176, 1172, 1169, 1166,
    1163, 1160, 1157, 1154, 1150, 1147, 1144, 1141, 1138, 1135, 1132, 1129, 1126, 1123, 1120, 1117,
    1114, 1111, 1108, 1105, 1102, 1099, 1096, 1093, 1090, 1087, 1084, 1081, 1078, 1075, 1072, 1069,
    1066, 1064, 1061, 1058, 1055, 1052, 1049, 1046, 1044, 1041, 1038, 1035, 1032, 1030, 1027, 1024 >>

mt == << 1, 2, 4, 6, 8, 10, 12, 14, 16, 18, 20, 20, 24, 24, 30, 30 >>

kslshift == << 8, 1, 2, 0 >>

eg_incstep == << << 0, 0, 0, 0 >>, << 1, 0, 0, 0 >>, << 1, 0, 1, 0 >>, << 1, 1, 1, 0 >> >>

(***************************************************************************)
(* Integer widths.  esfm.h names its types uint9, int12, uint16 ... but     *)
(* they are typedefs of the C fast types (the default build) or of the      *)
(* exact-width types (__NO_ESFM_FAST_TYPES).  int_fast16_t/uint_fast16_t    *)
(* are 16 bits wide on some platforms and 32 or 64 bits on others, so the   *)
(* width `w` of that family is a parameter of the build.  In a build wider  *)
(* than 16 bits no value of this model leaves the range of the type, so the *)
(* conversion is the identity there.                                        *)
(***************************************************************************)
FastWidths == { 16, 64 }

\* conversion to int12 / int16 (int_fast16_t or int16_t)
ToInt16(x, w) == IF w = 16 THEN ToSigned(x, 16) ELSE x

\* conversion to uint9 / uint10 / uint16 (uint_fast16_t or uint16_t)
ToUint16(x, w) == IF w = 16 THEN x % 65536 ELSE x

(***************************************************************************)
(* Waveform generators (esfm.c).  `neg` is 0 or 0xffff; the value returned  *)
(* by ESFM_envelope_calc_exp lies in 0..0xffff, so value ^ 0xffff is        *)
(* 0xffff - value, which is then converted to the return type int12.        *)
(***************************************************************************)
\* `uint16 level`: with the fast types a negative residue stands for a value
\* near 2^64, which the clamp brings to 0x1fff.
ESFM_envelope_calc_exp(level0, w) ==
    LET lv    == ToUint16(level0, w)
        level == IF lv > 8191 \/ lv < 0 THEN 8191 ELSE lv
    IN  ToInt16(Shr(exprom[(level % 256) + 1] * 2, Shr(level, 8)), w)

XorNeg(value, neg, w) == IF neg = 0 THEN value ELSE ToInt16(65535 - value, w)

ESFM_envelope_calc_sin0(phase0, envelope, w) ==
    LET phase == phase0 % 1024
        neg   == IF Bit(phase, 9) = 1 THEN 65535 ELSE 0
        out   == IF Bit(phase, 8) = 1
                    THEN logsinrom[(255 - (phase % 256)) + 1]
                    ELSE logsinrom[(phase % 256) + 1]
    IN  XorNeg(ESFM_envelope_calc_exp(out + envelope * 8, w), neg, w)

ESFM_envelope_calc_sin1(phase0, envelope, w) ==
    LET phase == phase0 % 1024
        out   == IF Bit(phase, 9) = 1 THEN 4096
                 ELSE IF Bit(phase, 8) = 1
                    THEN logsinrom[(255 - (phase % 256)) + 1]
                    ELSE logsinrom[(phase % 256) + 1]
    IN  ESFM_envelope_calc_exp(out + envelope * 8, w)

ESFM_envelope_calc_sin2(phase0, envelope, w) ==
    LET phase == phase0 % 1024
        out   == IF Bit(phase, 8) = 1
                    THEN logsinrom[(255 - (phase % 256)) + 1]
                    ELSE logsinrom[(phase % 256) + 1]
    IN  ESFM_envelope_calc_exp(out + envelope * 8, w)

ESFM_envelope_calc_sin3(phase0, envelope, w) ==
    LET phase == phase0 % 1024
        out   == IF Bit(phase, 8) = 1 THEN 4096
                 ELSE logsinrom[(phase % 256) + 1]
    IN  ESFM_envelope_calc_exp(out + envelope * 8, w)

\* ((phase ^ 0xff) << 1) & 0xff  ==  ((255 - (phase & 0xff)) * 2) & 0xff
ESFM_envelope_calc_sin4(phase0, envelope, w) ==
    LET phase == phase0 % 1024
        neg   == IF Shr(phase, 8) % 4 = 1 THEN 65535 ELSE 0
        out   == IF Bit(phase, 9) = 1 THEN 4096
                 ELSE IF Bit(phase, 7) = 1
                    THEN logsinrom[(((255 - (phase % 256)) * 2) % 256) + 1]
                    ELSE logsinrom[((phase * 2) % 256) + 1]
    IN  XorNeg(ESFM_envelope_calc_exp(out + envelope * 8, w), neg, w)

ESFM_envelope_calc_sin5(phase0, envelope, w) ==
    LET phase == phase0 % 1024
        out   == IF Bit(phase, 9) = 1 THEN 4096
                 ELSE IF Bit(phase, 7) = 1
                    THEN logsinrom[(((255 - (phase % 256)) * 2) % 256) + 1]
                    ELSE logsinrom[((phase * 2) % 256) + 1]
    IN  ESFM_envelope_calc_exp(out + envelope * 8, w)

ESFM_envelope_calc_sin6(phase0, envelope, w) ==
    LET phase == phase0 % 1024
        neg   == IF Bit(phase, 9) = 1 THEN 65535 ELSE 0
    IN  XorNeg(ESFM_envelope_calc_exp(envelope * 8, w), neg, w)

\* (phase & 0x1ff) ^ 0x1ff  ==  511 - (phase & 0x1ff)
ESFM_envelope_calc_sin7(phase0, envelope, w) ==
    LET phase == phase0 % 1024
        neg   == IF Bit(phase, 9) = 1 THEN 65535 ELSE 0
        ph    == IF Bit(phase, 9) = 1 THEN 511 - (phase % 512) ELSE phase
        out   == ToUint16(ph * 8, w)
    IN  XorNeg(ESFM_envelope_calc_exp(out + envelope * 8, w), neg, w)

envelope_sin(waveform, phase, envelope, w) ==
    CASE waveform = 0 -> ESFM_envelope_calc_sin0(phase, envelope, w)
      [] waveform = 1 -> ESFM_envelope_calc_sin1(phase, envelope, w)
      [] waveform = 2 -> ESFM_envelope_calc_sin2(phase, envelope, w)
      [] waveform = 3 -> ESFM_envelope_calc_sin3(phase, envelope, w)
      [] waveform = 4 -> ESFM_envelope_calc_sin4(phase, envelope, w)
      [] waveform = 5 -> ESFM_envelope_calc_sin5(phase, envelope, w)
      [] waveform = 6 -> ESFM_envelope_calc_sin6(phase, envelope, w)
      [] waveform = 7 -> ESFM_envelope_calc_sin7(phase, envelope, w)

(***************************************************************************)
(* Pointers.  A slot holds two non-owning pointers, set once by ESFM_init:  *)
(* mod_input (into a slot's output or feedback_buf) and key_on (into a      *)
(* channel's key_on or key_on_2).  A pointer is the record naming its       *)
(* target; Deref reads the target in the channel array as it is at the      *)
(* moment of the read.                                                      *)
(***************************************************************************)
DerefKeyOn(channels, ptr) ==
    IF ptr.field = "key_on_2"
        THEN channels[ptr.channel].key_on_2
        ELSE channels[ptr.channel].key_on

DerefModInput(channels, ptr) ==
    IF ptr.field = "feedback_buf"
        THEN channels[ptr.channel].slots[ptr.slot].feedback_buf
        ELSE channels[ptr.channel].slots[ptr.slot].output

(***************************************************************************)
(* ESFM_envelope_calc (esfm.c): one envelope generator tick of one slot.    *)
(* `key_on` is the value of *slot->in.key_on.  Returns the slot.            *)
(***************************************************************************)
\* shift = (rate_hi & 3) + eg_incstep[...]; 3 if bit 2 is set; eg_tick if 0
EnvShiftFast(s0, chip) ==
    IF Bit(s0, 2) = 1 THEN 3 ELSE IF s0 = 0 THEN chip.eg_tick ELSE s0

\* The shift selected by the rate and the dither clocks
EnvShift(reg_rate, rate_hi, rate_lo, eg_shift, chip) ==
    IF reg_rate = 0 THEN 0
    ELSE IF rate_hi < 12
        THEN IF chip.eg_tick # 0
                THEN CASE eg_shift = 12 -> 1
                       [] eg_shift = 13 -> Shr(rate_lo, 1) % 2
                       [] eg_shift = 14 -> rate_lo % 2
                       [] OTHER -> 0
                ELSE 0
        ELSE EnvShiftFast((rate_hi % 4) + eg_incstep[rate_lo + 1][(chip.global_timer % 4) + 1],
                          chip)

\* With the fast types a negative key-scale difference k is held as the
\* unsigned 2^64 + k, kept here as its signed residue k.  Shifted right by 0,
\* 1 or 2 it is 2^(64-s) + (k >> s); the only reader of eg_output multiplies
\* it by 8 modulo 2^64, which drops the high term.  Shifted by 8 it is
\* 2^56 + (k >> 8), which survives that multiplication: Wide56 stands for
\* 2^56, above every level ESFM_envelope_calc_exp distinguishes.
Wide56 == Pow2(24)

KslShifted(offset, s) ==
    IF offset < 0 /\ s = 8 THEN Wide56 + Shr(offset, 8) ELSE Shr(offset, s)

\* slot->in.eg_output, with the tremolo added when it is enabled
EnvOutput(slot, chip, w) ==
    ToUint16(slot.eg_position + slot.t_level * 4
             + KslShifted(slot.eg_ksl_offset, kslshift[slot.ksl + 1])
             + (IF slot.tremolo_en # 0
                   THEN Shr(chip.tremolo, (Not01(slot.tremolo_deep) * 2) + 2) % 256
                   ELSE 0), w)

\* The envelope delay: the delay counter as armed on the first tick that sees
\* key-on in RELEASE, or as it stands
EnvDelayCounter(slot, key_on) ==
    IF key_on # 0 /\ slot.eg_state = EG_RELEASE /\ slot.eg_delay_run = 0
        THEN (IF slot.env_delay # 0 THEN 256 ELSE 0)
        ELSE slot.eg_delay_counter

\* The rate register selected by the state, given the armed delay counter
EnvRegRate(slot, key_on, counter0) ==
    IF key_on # 0 /\ slot.eg_state = EG_RELEASE
        THEN (IF counter0 = 0 THEN slot.attack_rate ELSE slot.release_rate)
        ELSE CASE slot.eg_state = EG_ATTACK  -> slot.attack_rate
               [] slot.eg_state = EG_DECAY   -> slot.decay_rate
               [] slot.eg_state = EG_SUSTAIN ->
                     (IF slot.env_sustaining = 0 THEN slot.release_rate ELSE 0)
               [] slot.eg_state = EG_RELEASE -> slot.release_rate

\* rate = ks + (reg_rate << 2), a uint8
EnvRate(slot, reg_rate) ==
    (Shr(slot.keyscale, Not01(slot.ksr) * 2) + reg_rate * 4) % 256

\* rate_hi = rate >> 2, saturated to 0x0f when bit 4 is set
EnvRateHi(rate) == IF Bit(Shr(rate, 2), 4) = 1 THEN 15 ELSE Shr(rate, 2)

\* ~eg_position >> (4 - shift): the complement of an unsigned value of at
\* most 16 bits is -(x + 1) after promotion to int, shifted arithmetically; in
\* a wider build the shift is logical on the unsigned word.  Both agree
\* modulo 2^9, which is all the store into eg_position keeps.
\* eg_inc that goes on counting when the envelope is off
EnvInc_ignoresoff(slot, key_on, reset, eg_off, rate_hi, shift) ==
    CASE slot.eg_state = EG_ATTACK ->
            (IF slot.eg_position = 0 THEN 0
             ELSE IF key_on # 0 /\ shift > 0 /\ rate_hi # 15
                THEN Shr(-(slot.eg_position + 1), 4 - shift)
                ELSE 0)
      [] slot.eg_state = EG_DECAY ->
            (IF Shr(slot.eg_position, 4) = slot.sustain_lvl THEN 0
             ELSE IF reset = 0 /\ shift > 0 THEN Pow2(shift - 1) ELSE 0)
      [] OTHER ->
            (IF reset = 0 /\ shift > 0 THEN Pow2(shift - 1) ELSE 0)

\* eg_inc = 1 << shift in decay, sustain and release
EnvInc_shift(slot, key_on, reset, eg_off, rate_hi, shift) ==
    CASE slot.eg_state = EG_ATTACK ->
            (IF slot.eg_position = 0 THEN 0
             ELSE IF key_on # 0 /\ shift > 0 /\ rate_hi # 15
                THEN Shr(-(slot.eg_position + 1), 4 - shift)
                ELSE 0)
      [] slot.eg_state = EG_DECAY ->
            (IF Shr(slot.eg_position, 4) = slot.sustain_lvl THEN 0
             ELSE IF eg_off = 0 /\ reset = 0 /\ shift > 0
                THEN Pow2(shift)
                ELSE 0)
      [] OTHER ->
            (IF eg_off = 0 /\ reset = 0 /\ shift > 0
                THEN Pow2(shift)
                ELSE 0)

EnvInc(slot, key_on, reset, eg_off, rate_hi, shift) ==
    CASE slot.eg_state = EG_ATTACK ->
            (IF slot.eg_position = 0 THEN 0
             ELSE IF key_on # 0 /\ shift > 0 /\ rate_hi # 15
                THEN Shr(-(slot.eg_position + 1), 4 - shift)
                ELSE 0)
      [] slot.eg_state = EG_DECAY ->
            (IF Shr(slot.eg_position, 4) = slot.sustain_lvl THEN 0
             ELSE IF eg_off = 0 /\ reset = 0 /\ shift > 0
                THEN Pow2(shift - 1)
                ELSE 0)
      [] OTHER ->
            (IF eg_off = 0 /\ reset = 0 /\ shift > 0
                THEN Pow2(shift - 1)
                ELSE 0)

\* eg_rout without the instant attack
EnvRout_noinstant(slot, reset, eg_off, rate_hi) ==
    IF slot.eg_state # EG_ATTACK /\ reset = 0 /\ eg_off = 1 THEN 511
    ELSE slot.eg_position

EnvRout(slot, reset, eg_off, rate_hi) ==
    IF slot.eg_state # EG_ATTACK /\ reset = 0 /\ eg_off = 1 THEN 511
    ELSE IF reset = 1 /\ rate_hi = 15 THEN 0
    ELSE slot.eg_position

\* The state switch whose attack ends in SUSTAIN
EnvState_skipsdecay(slot, key_on, reset) ==
    IF key_on = 0 THEN EG_RELEASE
    ELSE IF reset = 1 THEN EG_ATTACK
    ELSE CASE slot.eg_state = EG_ATTACK /\ slot.eg_position = 0 -> EG_SUSTAIN
           [] slot.eg_state = EG_DECAY
                /\ Shr(slot.eg_position, 4) = slot.sustain_lvl -> EG_SUSTAIN
           [] OTHER -> slot.eg_state

EnvState(slot, key_on, reset) ==
    IF key_on = 0 THEN EG_RELEASE
    ELSE IF reset = 1 THEN EG_ATTACK
    ELSE CASE slot.eg_state = EG_ATTACK /\ slot.eg_position = 0 -> EG_DECAY
           [] slot.eg_state = EG_DECAY
                /\ Shr(slot.eg_position, 4) = slot.sustain_lvl -> EG_SUSTAIN
           [] OTHER -> slot.eg_state

\* The stores of ESFM_envelope_calc, given the values it has computed
EnvStore(slot, chip, key_on, w, counter0, reset, eg_off, rate_hi, shift) ==
    [ slot EXCEPT
        !.eg_output = EnvOutput(slot, chip, w),
        !.eg_delay_counter =
            IF key_on # 0 /\ slot.eg_state = EG_RELEASE /\ counter0 # 0
               /\ Bit(chip.global_timer, slot.env_delay) = 1
               THEN counter0 - 1
               ELSE counter0,
        !.phase_reset = reset,
        !.eg_position = (EnvRout(slot, reset, eg_off, rate_hi)
                         + EnvInc(slot, key_on, reset, eg_off, rate_hi, shift)) % 512,
        !.eg_state = EnvState(slot, key_on, reset),
        !.eg_delay_run =
            IF key_on = 0 THEN 0
            ELSE IF slot.eg_state = EG_RELEASE THEN (IF counter0 = 0 THEN 0 ELSE 1)
            ELSE slot.eg_delay_run ]

EnvWithRate(slot, chip, key_on, w, counter0, reg_rate, rate, rate_hi) ==
    EnvStore(slot, chip, key_on, w, counter0,
             IF key_on # 0 /\ slot.eg_state = EG_RELEASE /\ counter0 = 0 THEN 1 ELSE 0,
             IF Shr(slot.eg_position, 3) % 64 = 63 THEN 1 ELSE 0,
             rate_hi,
             EnvShift(reg_rate, rate_hi, rate % 4, (rate_hi + chip.eg_clocks) % 256, chip))

EnvWithRegRate(slot, chip, key_on, w, counter0, reg_rate, rate) ==
    EnvWithRate(slot, chip, key_on, w, counter0, reg_rate, rate, EnvRateHi(rate))

EnvWithCounter(slot, chip, key_on, w, counter0, reg_rate) ==
    EnvWithRegRate(slot, chip, key_on, w, counter0, reg_rate, EnvRate(slot, reg_rate))

ESFM_envelope_calc(slot, chip, key_on, w) ==
    EnvWithCounter(slot, chip, key_on, w, EnvDelayCounter(slot, key_on),
                   EnvRegRate(slot, key_on, EnvDelayCounter(slot, key_on)))

(***************************************************************************)
(* ESFM_phase_generate (esfm.c): one phase generator tick of slot           *)
(* `slot_idx` of channel `ch`; reads and advances the chip's LFSR and, in   *)
(* rhythm mode, latches the rhythm bits in the chip.  Returns the chip and  *)
(* the channel array.                                                       *)
(***************************************************************************)
\* The noise step with the feedback bit never inserted
LfsrStep_nofeedback(noise) == Shr(noise, 1)

\* The noise step with the feedback bit inserted one position too high
LfsrStep_bit23(noise) ==
    LET n_bit == Xor1(Bit(noise, 14), Bit(noise, 0))
    IN  Shr(noise, 1) + n_bit * Pow2(23)

LfsrStep(noise) ==
    LET n_bit == Xor1(Bit(noise, 14), Bit(noise, 0))
    IN  Shr(noise, 1) + n_bit * Pow2(22)

VibratoRange(slot, vibpos) ==
    LET r0 == Shr(slot.f_num, 7) % 8
        r1 == IF vibpos % 4 = 0 THEN 0
              ELSE IF vibpos % 2 = 1 THEN Shr(r0, 1) ELSE r0
        r2 == Shr(r1, Not01(slot.vibrato_deep))
    IN  IF Bit(vibpos, 2) = 1 THEN -r2 ELSE r2

\* The rhythm phase whose hi-hat pattern is picked by the noise bit alone
RhythmPhase_noxor(rhy_noise, noise, hh8, rm_xor) ==
    CASE rhy_noise = 1 -> hh8 * 512 + Xor1(hh8, noise % 2) * 256
      [] rhy_noise = 2 -> rm_xor * 512 + (IF noise % 2 = 1 THEN 208 ELSE 52)
      [] OTHER -> rm_xor * 512 + 128

\* phase_out of slot 3 in a rhythm mode: snare drum, hi-hat, top cymbal
RhythmPhase(rhy_noise, noise, hh8, rm_xor) ==
    CASE rhy_noise = 1 -> hh8 * 512 + Xor1(hh8, noise % 2) * 256
      [] rhy_noise = 2 -> rm_xor * 512 + (IF Xor1(rm_xor, noise % 2) = 1 THEN 208 ELSE 52)
      [] OTHER -> rm_xor * 512 + 128

ESFM_phase_generate(chip, channels, ch, slot_idx, w) ==
    LET slot == channels[ch].slots[slot_idx]
        f_num == IF slot.vibrato_en # 0
                    THEN ToUint16(slot.f_num + VibratoRange(slot, chip.vibrato_pos), w)
                    ELSE slot.f_num
        basefreq == Shr(f_num * Pow2(slot.block), 1)
        phase == ToUint16(Shr(slot.phase_acc, 9), w)
        acc0 == IF slot.phase_reset # 0 THEN 0 ELSE slot.phase_acc
        phase_acc == (acc0 + Shr(basefreq * mt[slot.mult + 1], 1)) % Pow2(19)
        noise == chip.lfsr
        rhythm == slot_idx = 3 /\ slot.rhy_noise # 0
        prev_phase_out == channels[ch].slots[2].phase_out
        hh2 == Bit(phase, 2)
        hh3 == Bit(phase, 3)
        hh7 == Bit(phase, 7)
        hh8 == Bit(phase, 8)
        tc3 == Bit(prev_phase_out, 3)
        tc5 == Bit(prev_phase_out, 5)
        phase_out ==
            IF ~rhythm THEN phase
            ELSE RhythmPhase(slot.rhy_noise, noise, hh8,
                             Or1(Or1(Xor1(hh2, hh7), Xor1(hh3, tc5)), Xor1(tc3, tc5)))
        chip1 == IF rhythm
                    THEN [ chip EXCEPT !.rm_hh_bit2 = hh2, !.rm_hh_bit3 = hh3,
                                       !.rm_hh_bit7 = hh7, !.rm_hh_bit8 = hh8,
                                       !.rm_tc_bit3 = tc3, !.rm_tc_bit5 = tc5,
                                       !.lfsr = LfsrStep(noise) ]
                    ELSE [ chip EXCEPT !.lfsr = LfsrStep(noise) ]
    IN  [ chip |-> chip1,
          channels |-> [ channels EXCEPT ![ch].slots[slot_idx].phase_acc = phase_acc,
                                         ![ch].slots[slot_idx].phase_out = phase_out ] ]

(***************************************************************************)
(* ESFM_slot_generate (esfm.c): waveform lookup with phase modulation, and  *)
(* the mix into the owning channel's stereo pair.                           *)
(***************************************************************************)
\* wavegen((uint10)(phase & 0x3ff), slot->in.eg_output)
SlotWave(channels, ch, slot_idx, w) ==
    LET slot == channels[ch].slots[slot_idx]
    IN  envelope_sin(slot.waveform,
                     (IF slot.mod_in_level # 0
                         THEN ToInt16(slot.phase_out
                                      + Shr(DerefModInput(channels, slot.mod_input),
                                            7 - slot.mod_in_level), w)
                         ELSE slot.phase_out) % 1024,
                     slot.eg_output, w)

\* channel->output[i] += output_value & slot->out_enable[i]; out_enable is 0
\* or ~0, so the masked value is 0 or output_value
SlotMix(acc, slot, output_value, i, w) ==
    ToInt16(acc + (IF slot.out_enable[i] = 0 THEN 0 ELSE output_value), w)

SlotStore(channels, ch, slot_idx, w, output, output_value) ==
    IF channels[ch].slots[slot_idx].output_level # 0
        THEN [ channels EXCEPT
                 ![ch].slots[slot_idx].output = output,
                 ![ch].output =
                    << SlotMix(@[1], channels[ch].slots[slot_idx], output_value, 1, w),
                       SlotMix(@[2], channels[ch].slots[slot_idx], output_value, 2, w) >> ]
        ELSE [ channels EXCEPT ![ch].slots[slot_idx].output = output ]

SlotShift(channels, ch, slot_idx, w, output) ==
    SlotStore(channels, ch, slot_idx, w, output,
              ToInt16(Shr(output, 7 - channels[ch].slots[slot_idx].output_level), w))

ESFM_slot_generate(channels, ch, slot_idx, w) ==
    SlotShift(channels, ch, slot_idx, w, SlotWave(channels, ch, slot_idx, w))

(***************************************************************************)
(* ESFM_slot_calc_feedback (esfm.c).                                        *)
(***************************************************************************)
\* The feedback taken as half the sum of the two outputs
ESFM_slot_calc_feedback_half(slot, w) ==
    [ slot EXCEPT
        !.feedback_buf = ToInt16(Shr(slot.output + slot.prev_output, 1), w),
        !.prev_output = slot.output ]

ESFM_slot_calc_feedback(slot, w) ==
    [ slot EXCEPT
        !.feedback_buf = ToInt16(Shr(slot.output + slot.prev_output, 2), w),
        !.prev_output = slot.output ]

(***************************************************************************)
(* ESFM_process_channel (esfm.c): slots 0..3 in order, each one envelope,   *)
(* then phase, then output.  ProcessSlots is the for loop; its state is the *)
(* chip, the channel array and the loop variable slot_idx.                  *)
(***************************************************************************)
SlotEnvelope(st, ch, w) ==
    [ st.channels EXCEPT ![ch].slots[st.slot_idx] =
        ESFM_envelope_calc(@, st.chip, DerefKeyOn(st.channels, @.key_on), w) ]

\* The loop step that passes over every other slot
SlotOutput_skips(pg, ch, slot_idx, w) ==
    [ chip |-> pg.chip,
      channels |-> ESFM_slot_generate(pg.channels, ch, slot_idx, w),
      slot_idx |-> slot_idx + 2 ]

SlotOutput(pg, ch, slot_idx, w) ==
    [ chip |-> pg.chip,
      channels |-> ESFM_slot_generate(pg.channels, ch, slot_idx, w),
      slot_idx |-> slot_idx + 1 ]

SlotStep(st, ch, w) ==
    SlotOutput(ESFM_phase_generate(st.chip, SlotEnvelope(st, ch, w), ch, st.slot_idx, w),
               ch, st.slot_idx, w)

RECURSIVE ProcessSlots(_, _, _)
ProcessSlots(st, ch, w) ==
    IF st.slot_idx >= 4 THEN st
    ELSE ProcessSlots(SlotStep(st, ch, w), ch, w)

ESFM_process_channel(chip0, channels0, ch, w) ==
    ProcessSlots([ chip |-> chip0,
                   channels |-> [ channels0 EXCEPT
                                    ![ch].output = << 0, 0 >>,
                                    ![ch].slots[0] = ESFM_slot_calc_feedback(@, w) ],
                   slot_idx |-> 0 ], ch, w)

(***************************************************************************)
(* The 36-bit envelope timer (uint36, a 64-bit word in every build) is kept *)
(* as two 18-bit limbs, value = hi * 2^18 + lo.                             *)
(***************************************************************************)
LimbBits == 18

Timer36Bit(t, n) == IF n < LimbBits THEN Bit(t.lo, n) ELSE Bit(t.hi, n - LimbBits)

\* The comparison with (1llu << 36) - 1 that no 36-bit value satisfies
Timer36IsMax_never(t) == t.hi = Pow2(LimbBits)

Timer36IsMax(t) == t.lo = Pow2(LimbBits) - 1 /\ t.hi = Pow2(LimbBits) - 1

Timer36Inc(t) ==
    IF t.lo = Pow2(LimbBits) - 1
        THEN [ hi |-> t.hi + 1, lo |-> 0 ]
        ELSE [ hi |-> t.hi, lo |-> t.lo + 1 ]

\* while (shift < 36 && ((eg_timer >> shift) & 1) == 0) shift++;
RECURSIVE TrailingZeros(_, _)
TrailingZeros(t, shift) ==
    IF shift < 36 /\ Timer36Bit(t, shift) = 0
        THEN TrailingZeros(t, shift + 1)
        ELSE shift

(***************************************************************************)
(* ESFM_clip_sample and ESFM_update_timers (esfm.c).                        *)
(***************************************************************************)
\* The clip with the comparison of the lower clamp inverted
ESFM_clip_sample_inverted(sample) ==
    ToSigned(IF sample > 32767 THEN 32767
             ELSE IF sample > -32768 THEN -32768
             ELSE sample, 16)

\* The clip without the upper clamp: the cast to int16_t wraps
ESFM_clip_sample_wrapping(sample) ==
    ToSigned(IF sample < -32768 THEN -32768 ELSE sample, 16)

ESFM_clip_sample(sample) ==
    ToSigned(IF sample > 32767 THEN 32767
             ELSE IF sample < -32768 THEN -32768
             ELSE sample, 16)

\* The triangle with its two branches swapped
TremoloWave_swapped(tremolo_pos) ==
    IF tremolo_pos < 105 THEN 210 - tremolo_pos ELSE tremolo_pos

\* The triangle of the tremolo LFO: if (tremolo_pos < 105) ... else ...
TremoloWave(tremolo_pos) ==
    IF tremolo_pos < 105 THEN tremolo_pos ELSE 210 - tremolo_pos

\* The timers with the vibrato clocked on (global_timer & 0x7f) == 0x7f
ESFM_update_timers_mask7f(chip) ==
    LET trem_step == chip.global_timer % 64 = 63
        tremolo_pos == IF trem_step THEN (chip.tremolo_pos + 1) % 210
                                    ELSE chip.tremolo_pos
        tremolo == IF trem_step
                      THEN TremoloWave(tremolo_pos)
                      ELSE chip.tremolo
        vibrato_pos == IF chip.global_timer % 128 = 127
                          THEN (chip.vibrato_pos + 1) % 8
                          ELSE chip.vibrato_pos
        shift == TrailingZeros(chip.eg_timer, 0)
        eg_clocks == IF (chip.eg_timer.hi # 0 \/ chip.eg_timer.lo # 0) /\ shift <= 12
                        THEN shift + 1 ELSE 0
        advance == chip.eg_tick # 0 \/ chip.eg_timer_overflow # 0
        wrap == Timer36IsMax(chip.eg_timer)
    IN  [ chip EXCEPT
            !.tremolo_pos = tremolo_pos,
            !.tremolo = tremolo,
            !.vibrato_pos = vibrato_pos,
            !.global_timer = (chip.global_timer + 1) % 1024,
            !.eg_clocks = eg_clocks,
            !.eg_timer = IF advance
                            THEN (IF wrap THEN [ hi |-> 0, lo |-> 0 ] ELSE Timer36Inc(@))
                            ELSE @,
            !.eg_timer_overflow = IF advance THEN (IF wrap THEN 1 ELSE 0) ELSE @,
            !.eg_tick = Xor1(chip.eg_tick, 1) ]

\* The timers with the tremolo clocked on (global_timer & 0x1f) == 0x1f
ESFM_update_timers_mask1f(chip) ==
    LET trem_step == chip.global_timer % 32 = 31
        tremolo_pos == IF trem_step THEN (chip.tremolo_pos + 1) % 210
                                    ELSE chip.tremolo_pos
        tremolo == IF trem_step
                      THEN TremoloWave(tremolo_pos)
                      ELSE chip.tremolo
        vibrato_pos == IF chip.global_timer % 1024 = 1023
                          THEN (chip.vibrato_pos + 1) % 8
                          ELSE chip.vibrato_pos
        shift == TrailingZeros(chip.eg_timer, 0)
        eg_clocks == IF (chip.eg_timer.hi # 0 \/ chip.eg_timer.lo # 0) /\ shift <= 12
                        THEN shift + 1 ELSE 0
        advance == chip.eg_tick # 0 \/ chip.eg_timer_overflow # 0
        wrap == Timer36IsMax(chip.eg_timer)
    IN  [ chip EXCEPT
            !.tremolo_pos = tremolo_pos,
            !.tremolo = tremolo,
            !.vibrato_pos = vibrato_pos,
            !.global_timer = (chip.global_timer + 1) % 1024,
            !.eg_clocks = eg_clocks,
            !.eg_timer = IF advance
                            THEN (IF wrap THEN [ hi |-> 0, lo |-> 0 ] ELSE Timer36Inc(@))
                            ELSE @,
            !.eg_timer_overflow = IF advance THEN (IF wrap THEN 1 ELSE 0) ELSE @,
            !.eg_tick = Xor1(chip.eg_tick, 1) ]

ESFM_update_timers(chip) ==
    LET trem_step == chip.global_timer % 64 = 63
        tremolo_pos == IF trem_step THEN (chip.tremolo_pos + 1) % 210
                                    ELSE chip.tremolo_pos
        tremolo == IF trem_step
                      THEN TremoloWave(tremolo_pos)
                      ELSE chip.tremolo
        vibrato_pos == IF chip.global_timer % 1024 = 1023
                          THEN (chip.vibrato_pos + 1) % 8
                          ELSE chip.vibrato_pos
        shift == TrailingZeros(chip.eg_timer, 0)
        eg_clocks == IF (chip.eg_timer.hi # 0 \/ chip.eg_timer.lo # 0) /\ shift <= 12
                        THEN shift + 1 ELSE 0
        advance == chip.eg_tick # 0 \/ chip.eg_timer_overflow # 0
        wrap == Timer36IsMax(chip.eg_timer)
    IN  [ chip EXCEPT
            !.tremolo_pos = tremolo_pos,
            !.tremolo = tremolo,
            !.vibrato_pos = vibrato_pos,
            !.global_timer = (chip.global_timer + 1) % 1024,
            !.eg_clocks = eg_clocks,
            !.eg_timer = IF advance
                            THEN (IF wrap THEN [ hi |-> 0, lo |-> 0 ] ELSE Timer36Inc(@))
                            ELSE @,
            !.eg_timer_overflow = IF advance THEN (IF wrap THEN 1 ELSE 0) ELSE @,
            !.eg_tick = Xor1(chip.eg_tick, 1) ]

(***************************************************************************)
(* ESFM_generate (esfm.c): one stereo sample.  ProcessChannels is the for   *)
(* loop over the 18 channels, which also accumulates output_accm (an        *)
(* int32: at least 32 bits in every build).                                 *)
(***************************************************************************)
NumChannels == 18

\* chip->output_accm[i] += channel->output[i]
ChannelAccumulate(pc, channel_idx) ==
    [ chip |-> [ pc.chip EXCEPT
                   !.output_accm = << @[1] + pc.channels[channel_idx].output[1],
                                      @[2] + pc.channels[channel_idx].output[2] >> ],
      channels |-> pc.channels,
      channel_idx |-> channel_idx + 1 ]

ChannelStep(st, w) ==
    ChannelAccumulate(ESFM_process_channel(st.chip, st.channels, st.channel_idx, w),
                      st.channel_idx)

RECURSIVE ProcessChannels(_, _)
ProcessChannels(st, w) ==
    IF st.channel_idx >= NumChannels THEN st
    ELSE ProcessChannels(ChannelStep(st, w), w)

\* The clip into buf and the timer update that end ESFM_generate
GenerateOutput(st) ==
    [ chip |-> ESFM_update_timers(st.chip),
      channels |-> st.channels,
      buf |-> << ESFM_clip_sample(st.chip.output_accm[1]),
                 ESFM_clip_sample(st.chip.output_accm[2]) >> ]

ESFM_generate(chip0, channels0, w) ==
    GenerateOutput(ProcessChannels(
                     [ chip |-> [ chip0 EXCEPT !.output_accm = << 0, 0 >> ],
                       channels |-> channels0,
                       channel_idx |-> 0 ], w))

(***************************************************************************)
(* ESFM_init (esfm_registers.c): memset to zero, then the wiring.           *)
(***************************************************************************)
\* The slot whose key_on always points at its channel's key_on
InitSlot_onekeyon(channel_idx, slot_idx) ==
    [ \* register data
      out_enable |-> << -1, -1 >>,
      f_num |-> 0, block |-> 0, output_level |-> 0, mod_in_level |-> 0,
      t_level |-> 0, mult |-> 0, waveform |-> 0, rhy_noise |-> 0,
      attack_rate |-> 0, decay_rate |-> 0, sustain_lvl |-> 0, release_rate |-> 0,
      tremolo_en |-> 0, tremolo_deep |-> 0, vibrato_en |-> 0, vibrato_deep |-> 0,
      env_sustaining |-> 0, ksr |-> 0, ksl |-> 0, env_delay |-> 0,
      \* internal state
      eg_position |-> 511, eg_ksl_offset |-> 0, eg_output |-> 511, keyscale |-> 0,
      output |-> 0, prev_output |-> 0, feedback_buf |-> 0,
      mod_input |-> IF slot_idx = 0
                       THEN [ channel |-> channel_idx, slot |-> 0,
                              field |-> "feedback_buf" ]
                       ELSE [ channel |-> channel_idx, slot |-> slot_idx - 1,
                              field |-> "output" ],
      phase_acc |-> 0, phase_out |-> 0, phase_reset |-> 0,
      key_on |-> [ channel |-> channel_idx, field |-> "key_on" ],
      eg_state |-> EG_RELEASE, eg_delay_run |-> 0, eg_delay_counter |-> 0 ]

InitSlot(channel_idx, slot_idx) ==
    [ \* register data
      out_enable |-> << -1, -1 >>,
      f_num |-> 0, block |-> 0, output_level |-> 0, mod_in_level |-> 0,
      t_level |-> 0, mult |-> 0, waveform |-> 0, rhy_noise |-> 0,
      attack_rate |-> 0, decay_rate |-> 0, sustain_lvl |-> 0, release_rate |-> 0,
      tremolo_en |-> 0, tremolo_deep |-> 0, vibrato_en |-> 0, vibrato_deep |-> 0,
      env_sustaining |-> 0, ksr |-> 0, ksl |-> 0, env_delay |-> 0,
      \* internal state
      eg_position |-> 511, eg_ksl_offset |-> 0, eg_output |-> 511, keyscale |-> 0,
      output |-> 0, prev_output |-> 0, feedback_buf |-> 0,
      mod_input |-> IF slot_idx = 0
                       THEN [ channel |-> channel_idx, slot |-> 0,
                              field |-> "feedback_buf" ]
                       ELSE [ channel |-> channel_idx, slot |-> slot_idx - 1,
                              field |-> "output" ],
      phase_acc |-> 0, phase_out |-> 0, phase_reset |-> 0,
      key_on |-> IF channel_idx > 15 /\ Bit(slot_idx, 1) = 1
                    THEN [ channel |-> channel_idx, field |-> "key_on_2" ]
                    ELSE [ channel |-> channel_idx, field |-> "key_on" ],
      eg_state |-> EG_RELEASE, eg_delay_run |-> 0, eg_delay_counter |-> 0 ]

InitChannel(channel_idx) ==
    [ slots |-> [ slot_idx \in 0 .. 3 |-> InitSlot(channel_idx, slot_idx) ],
      output |-> << 0, 0 >>,
      key_on |-> 0, emu_mode_4op_enable |-> 0,
      key_on_2 |-> 0, emu_mode_4op_enable_2 |-> 0 ]

InitChip ==
    [ output_accm |-> << 0, 0 >>, addr_latch |-> 0,
      emu_newmode |-> 0, native_mode |-> 0, keyscale_mode |-> 0,
      eg_timer |-> [ hi |-> 0, lo |-> 0 ], global_timer |-> 0, eg_clocks |-> 0,
      eg_tick |-> 0, eg_timer_overflow |-> 0,
      tremolo |-> 0, tremolo_pos |-> 0, vibrato_pos |-> 0, lfsr |-> 1,
      rm_hh_bit2 |-> 0, rm_hh_bit3 |-> 0, rm_hh_bit7 |-> 0, rm_hh_bit8 |-> 0,
      rm_tc_bit3 |-> 0, rm_tc_bit5 |-> 0,
      timers |-> << 0, 0 >>, timer_enable |-> << 0, 0 >>, timer_mask |-> << 0, 0 >>,
      timer_overflow |-> << 0, 0 >>, irq_bit |-> 0,
      test_bit_distort |-> 0, test_bit_attenuate |-> 0, test_bit_mute |-> 0 ]

ESFM_init ==
    [ chip |-> InitChip,
      channels |-> [ channel_idx \in 0 .. NumChannels - 1 |-> InitChannel(channel_idx) ] ]

(***************************************************************************)
(* Register file (esfm_registers.c).                                        *)
(***************************************************************************)
\* The switch whose case 2 lacks its break and runs on into case 3
ESFM_slot_write_fallthrough(slot, register_idx, data) ==
    CASE register_idx % 8 = 0 ->
            [ slot EXCEPT !.tremolo_en = Bit(data, 7),
                          !.vibrato_en = Bit(data, 6),
                          !.env_sustaining = Bit(data, 5),
                          !.ksr = Bit(data, 4),
                          !.mult = data % 16 ]
      [] register_idx % 8 = 1 ->
            [ slot EXCEPT !.ksl = Shr(data, 6),
                          !.t_level = data % 64 ]
      [] register_idx % 8 = 2 ->
            [ slot EXCEPT !.attack_rate = Shr(data, 4),
                          !.decay_rate = data % 16,
                          !.sustain_lvl = Shr(data, 4),
                          !.release_rate = data % 16 ]
      [] register_idx % 8 = 3 ->
            [ slot EXCEPT !.sustain_lvl = Shr(data, 4),
                          !.release_rate = data % 16 ]
      [] register_idx % 8 = 4 ->
            [ slot EXCEPT !.f_num = (Shr(slot.f_num, 8) % 4) * 256 + data ]
      [] register_idx % 8 = 5 ->
            [ slot EXCEPT !.env_delay = Shr(data, 5),
                          !.block = Shr(data, 2) % 8,
                          !.f_num = (slot.f_num % 256) + (data % 4) * 256 ]
      [] register_idx % 8 = 6 ->
            [ slot EXCEPT !.tremolo_deep = Bit(data, 7),
                          !.vibrato_deep = Bit(data, 6),
                          !.out_enable = << IF Bit(data, 5) = 1 THEN -1 ELSE 0,
                                            IF Bit(data, 4) = 1 THEN -1 ELSE 0 >>,
                          !.mod_in_level = Shr(data, 1) % 8 ]
      [] register_idx % 8 = 7 ->
            [ slot EXCEPT !.output_level = Shr(data, 5),
                          !.rhy_noise = Shr(data, 3) % 4,
                          !.waveform = data % 8 ]

ESFM_slot_write(slot, register_idx, data) ==
    CASE register_idx % 8 = 0 ->
            [ slot EXCEPT !.tremolo_en = Bit(data, 7),
                          !.vibrato_en = Bit(data, 6),
                          !.env_sustaining = Bit(data, 5),
                          !.ksr = Bit(data, 4),
                          !.mult = data % 16 ]
      [] register_idx % 8 = 1 ->
            [ slot EXCEPT !.ksl = Shr(data, 6),
                          !.t_level = data % 64 ]
      [] register_idx % 8 = 2 ->
            [ slot EXCEPT !.attack_rate = Shr(data, 4),
                          !.decay_rate = data % 16 ]
      [] register_idx % 8 = 3 ->
            [ slot EXCEPT !.sustain_lvl = Shr(data, 4),
                          !.release_rate = data % 16 ]
      [] register_idx % 8 = 4 ->
            [ slot EXCEPT !.f_num = (Shr(slot.f_num, 8) % 4) * 256 + data ]
      [] register_idx % 8 = 5 ->
            [ slot EXCEPT !.env_delay = Shr(data, 5),
                          !.block = Shr(data, 2) % 8,
                          !.f_num = (slot.f_num % 256) + (data % 4) * 256 ]
      [] register_idx % 8 = 6 ->
            [ slot EXCEPT !.tremolo_deep = Bit(data, 7),
                          !.vibrato_deep = Bit(data, 6),
                          !.out_enable = << IF Bit(data, 5) = 1 THEN -1 ELSE 0,
                                            IF Bit(data, 4) = 1 THEN -1 ELSE 0 >>,
                          !.mod_in_level = Shr(data, 1) % 8 ]
      [] register_idx % 8 = 7 ->
            [ slot EXCEPT !.output_level = Shr(data, 5),
                          !.rhy_noise = Shr(data, 3) % 4,
                          !.waveform = data % 8 ]

KEY_ON_REGS_START == 576

TIMER1_REG == 1026

TIMER2_REG == 1027

TIMER_SETUP_REG == 1028

CONFIG_REG == 1032

TEST_REG == 1281

\* address & 0x4ff: bit 8 is cleared as well
And5ff_4ff(address) == (address % 256) + Bit(address, 10) * 1024

\* address & 0x5ff: bits 9 and 11 and above are cleared
And5ff(address) == (address % 512) + Bit(address, 10) * 1024

\* Returns the chip and the channel array after the write.
ESFM_write_reg_native(chip0, channels0, address0, data) ==
    LET address == address0 % 2048
    IN  IF address < KEY_ON_REGS_START
            THEN \* slot register write
                 LET channel_idx == Shr(address, 5)
                     slot_idx == Shr(address, 3) % 4
                     register_idx == address % 8
                 IN  [ chip |-> chip0,
                       channels |-> [ channels0 EXCEPT ![channel_idx].slots[slot_idx] =
                                        ESFM_slot_write(@, register_idx, data) ] ]
        ELSE IF address < KEY_ON_REGS_START + 16
            THEN \* key-on registers
                 LET channel_idx == address - KEY_ON_REGS_START
                 IN  [ chip |-> chip0,
                       channels |-> [ channels0 EXCEPT
                                        ![channel_idx].key_on = data % 2,
                                        ![channel_idx].emu_mode_4op_enable = Bit(data, 1) ] ]
        ELSE IF address < KEY_ON_REGS_START + 20
            THEN \* size_t channel_idx = 16 + address & 0x01: + binds tighter than &
                 LET channel_idx == (16 + address) % 2
                     second_half == address % 4
                 IN  IF second_half # 0
                        THEN [ chip |-> chip0,
                               channels |-> [ channels0 EXCEPT
                                   ![channel_idx].key_on_2 = data % 2,
                                   ![channel_idx].emu_mode_4op_enable_2 = Bit(data, 1) ] ]
                        ELSE [ chip |-> chip0,
                               channels |-> [ channels0 EXCEPT
                                   ![channel_idx].key_on = data % 2,
                                   ![channel_idx].emu_mode_4op_enable = Bit(data, 1) ] ]
        ELSE LET reg == And5ff(address)
             IN  [ channels |-> channels0,
                   chip |->
                     CASE reg = TIMER1_REG ->
                            [ chip0 EXCEPT !.timers[1] = data ]
                       [] reg = TIMER2_REG ->
                            [ chip0 EXCEPT !.timers[2] = data ]
                       [] reg = TIMER_SETUP_REG ->
                            [ chip0 EXCEPT
                                !.timer_overflow = IF Bit(data, 7) = 1 THEN << 0, 0 >> ELSE @,
                                !.irq_bit = IF Bit(data, 7) = 1 THEN 0 ELSE @,
                                !.timer_enable = << Bit(data, 0), Bit(data, 1) >>,
                                !.timer_mask = << Bit(data, 5), Bit(data, 6) >> ]
                       [] reg = CONFIG_REG ->
                            [ chip0 EXCEPT !.keyscale_mode = Bit(data, 6) ]
                       [] reg = TEST_REG ->
                            [ chip0 EXCEPT !.test_bit_distort = Bit(data, 1),
                                           !.test_bit_attenuate = Bit(data, 4),
                                           !.test_bit_mute = Bit(data, 6) ]
                       [] OTHER -> chip0 ]

\* `reg` is a bool in the source, which is a uint_fast8_t (8 bits) in C.
ESFM_write_reg_emu(chip0, channels0, address, data) ==
    LET high == Bit(address, 8)
        reg == address % 256
    IN  [ channels |-> channels0,
          chip |->
            IF Shr(reg, 4) = 0
                THEN IF high = 1
                        THEN (IF reg % 16 = 5
                                THEN [ chip0 EXCEPT !.emu_newmode = data % 2,
                                                    !.native_mode = Bit(data, 7) ]
                                ELSE chip0)
                        ELSE (IF reg % 16 = 8
                                THEN [ chip0 EXCEPT !.keyscale_mode = Bit(data, 6) ]
                                ELSE chip0)
                ELSE chip0 ]

\* The dispatch that never takes the native-mode branch
ESFM_write_reg_emuonly(chip0, channels0, address, data) ==
    ESFM_write_reg_emu(chip0, channels0, address, data)

ESFM_write_reg(chip0, channels0, address, data) ==
    IF chip0.native_mode # 0
        THEN ESFM_write_reg_native(chip0, channels0, address, data)
        ELSE ESFM_write_reg_emu(chip0, channels0, address, data)

\* The port write whose high-byte store drops the low byte of the latch
ESFM_write_port_hiclears(chip0, channels0, offset, data) ==
    LET latch == chip0.addr_latch
        set_lo == [ chip |-> [ chip0 EXCEPT !.addr_latch = Shr(latch, 8) * 256 + data ],
                    channels |-> channels0 ]
        set_hi == [ chip |-> [ chip0 EXCEPT !.addr_latch = data * 256 ],
                    channels |-> channels0 ]
        same == [ chip |-> chip0, channels |-> channels0 ]
    IN  IF chip0.native_mode # 0
            THEN CASE offset = 0 ->
                        [ chip |-> [ chip0 EXCEPT !.native_mode = 0 ],
                          channels |-> channels0 ]
                   [] offset = 1 -> ESFM_write_reg_native(chip0, channels0, latch, data)
                   [] offset = 2 -> set_lo
                   [] offset = 3 -> set_hi
                   [] OTHER -> same
            ELSE CASE offset = 0 -> set_hi
                   [] offset = 1 ->
                        ESFM_write_reg_emu(chip0, channels0, Shr(latch, 8), data)
                   [] offset = 2 -> set_lo
                   [] offset = 3 ->
                        ESFM_write_reg_emu(chip0, channels0, (latch % 256) + 256, data)
                   [] OTHER -> same

ESFM_write_port(chip0, channels0, offset, data) ==
    LET latch == chip0.addr_latch
        set_lo == [ chip |-> [ chip0 EXCEPT !.addr_latch = Shr(latch, 8) * 256 + data ],
                    channels |-> channels0 ]
        set_hi == [ chip |-> [ chip0 EXCEPT !.addr_latch = (latch % 256) + data * 256 ],
                    channels |-> channels0 ]
        same == [ chip |-> chip0, channels |-> channels0 ]
    IN  IF chip0.native_mode # 0
            THEN CASE offset = 0 ->
                        [ chip |-> [ chip0 EXCEPT !.native_mode = 0 ],
                          channels |-> channels0 ]
                   [] offset = 1 -> ESFM_write_reg_native(chip0, channels0, latch, data)
                   [] offset = 2 -> set_lo
                   [] offset = 3 -> set_hi
                   [] OTHER -> same
            ELSE CASE offset = 0 -> set_hi
                   [] offset = 1 ->
                        ESFM_write_reg_emu(chip0, channels0, Shr(latch, 8), data)
                   [] offset = 2 -> set_lo
                   [] offset = 3 ->
                        ESFM_write_reg_emu(chip0, channels0, (latch % 256) + 256, data)
                   [] OTHER -> same

(***************************************************************************)
(* Register readback (esfm_registers.c).  A readback returns the byte read  *)
(* and the chip as the call leaves it.                                      *)
(***************************************************************************)
\* kslrom[16], indexed from 0
kslrom(i) ==
    << 0, 32, 40, 45, 48, 51, 53, 55, 56, 58, 59, 60, 61, 62, 63, 64 >>[i + 1]

\* `uint9 ksl` is unsigned, so `ksl < 0` is never true and a negative
\* difference is stored converted to uint9: modulo 2^16 with the exact-width
\* types, modulo 2^w with the fast types (kept as its signed residue).
ESFM_envelope_update_ksl(slot, w) ==
    [ slot EXCEPT !.eg_ksl_offset =
        ToUint16(kslrom(Shr(slot.f_num, 6)) * 4 - (8 - slot.block) * 32, w) ]

\* (x != 0)
NonZero(x) == IF x # 0 THEN 1 ELSE 0

ESFM_slot_readback(slot, register_idx, w) ==
    CASE register_idx % 8 = 0 ->
            [ slot |-> slot,
              data |-> NonZero(slot.tremolo_en) * 128 + NonZero(slot.vibrato_en) * 64
                       + NonZero(slot.env_sustaining) * 32
                       + NonZero(slot.vibrato_en) * 16 + (slot.mult % 16) ]
      [] register_idx % 8 = 1 ->
            [ slot |-> ESFM_envelope_update_ksl(slot, w),
              data |-> ((slot.ksl * 64) % 256) + (slot.t_level % 64) ]
      [] register_idx % 8 = 2 ->
            [ slot |-> slot,
              data |-> ((slot.attack_rate * 16) % 256) + (slot.decay_rate % 16) ]
      [] register_idx % 8 = 3 ->
            [ slot |-> slot,
              data |-> ((slot.sustain_lvl * 16) % 256) + (slot.release_rate % 16) ]
      [] register_idx % 8 = 4 ->
            [ slot |-> slot, data |-> slot.f_num % 256 ]
      [] register_idx % 8 = 5 ->
            [ slot |-> slot,
              data |-> ((slot.env_delay * 32) % 256) + (slot.block % 8) * 4
                       + (Shr(slot.f_num, 8) % 4) ]
      [] register_idx % 8 = 6 ->
            [ slot |-> slot,
              data |-> NonZero(slot.tremolo_deep) * 128 + NonZero(slot.vibrato_deep) * 64
                       + NonZero(slot.out_enable[1]) * 32 + NonZero(slot.out_enable[2]) * 16
                       + (slot.mod_in_level % 8) * 2 ]
      [] register_idx % 8 = 7 ->
            [ slot |-> slot,
              data |-> ((slot.output_level * 32) % 256) + (slot.rhy_noise % 4) * 8
                       + (slot.waveform % 8) ]

\* Returns the byte read, the chip and the channel array after the read.
ESFM_readback_reg_native(chip0, channels0, address0, w) ==
    LET address == address0 % 2048
    IN  IF address < KEY_ON_REGS_START
            THEN \* slot register read
                 LET channel_idx == Shr(address, 5)
                     slot_idx == Shr(address, 3) % 4
                     rb == ESFM_slot_readback(channels0[channel_idx].slots[slot_idx],
                                              address % 8, w)
                 IN  [ data |-> rb.data, chip |-> chip0,
                       channels |-> [ channels0 EXCEPT
                                        ![channel_idx].slots[slot_idx] = rb.slot ] ]
        ELSE IF address < KEY_ON_REGS_START + 16
            THEN \* key-on registers
                 LET channel == channels0[address - KEY_ON_REGS_START]
                 IN  [ data |-> NonZero(channel.key_on)
                                + NonZero(channel.emu_mode_4op_enable) * 2,
                       chip |-> chip0, channels |-> channels0 ]
        ELSE IF address < KEY_ON_REGS_START + 20
            THEN \* size_t channel_idx = 16 + address & 0x03: + binds tighter than &
                 LET channel == channels0[(16 + address) % 4]
                     second_half == address % 2
                 IN  [ data |-> IF second_half # 0
                                   THEN NonZero(channel.key_on_2)
                                        + NonZero(channel.emu_mode_4op_enable_2) * 2
                                   ELSE NonZero(channel.key_on)
                                        + NonZero(channel.emu_mode_4op_enable) * 2,
                       chip |-> chip0, channels |-> channels0 ]
        ELSE LET reg == And5ff(address)
             IN  [ chip |-> chip0, channels |-> channels0,
                   data |->
                     CASE reg = TIMER1_REG -> chip0.timers[1]
                       [] reg = TIMER2_REG -> chip0.timers[2]
                       [] reg = TIMER_SETUP_REG ->
                            NonZero(chip0.timer_enable[1])
                            + NonZero(chip0.timer_enable[2]) * 2
                            + NonZero(chip0.timer_mask[1]) * 32
                            + NonZero(chip0.timer_mask[2]) * 64
                       [] reg = CONFIG_REG -> NonZero(chip0.keyscale_mode) * 64
                       [] reg = TEST_REG ->
                            NonZero(chip0.test_bit_distort) * 2
                            + NonZero(chip0.test_bit_attenuate) * 16
                            + NonZero(chip0.test_bit_mute) * 64
                       [] OTHER -> 0 ]

\* In emulation mode the readback is commented out and 0 is returned.
ESFM_readback_reg(chip0, channels0, address, w) ==
    IF chip0.native_mode # 0
        THEN ESFM_readback_reg_native(chip0, channels0, address, w)
        ELSE [ data |-> 0, chip |-> chip0, channels |-> channels0 ]

\* ESFM_read_port: port 0 is the status byte in both modes, port 1 reads the
\* latched register in native mode, every other read returns 0.
ESFM_read_port(chip0, channels0, offset, w) ==
    LET status == NonZero(chip0.irq_bit) * 128
                  + NonZero(chip0.timer_overflow[1]) * 64
                  + NonZero(chip0.timer_overflow[2]) * 32
        same(data) == [ data |-> data, chip |-> chip0, channels |-> channels0 ]
    IN  IF chip0.native_mode # 0
            THEN CASE offset = 0 -> same(status)
                   [] offset = 1 ->
                        ESFM_readback_reg_native(chip0, channels0, chip0.addr_latch, w)
                   [] OTHER -> same(0)
            ELSE CASE offset = 0 -> same(status)
                   [] OTHER -> same(0)

(***************************************************************************)
(* State.                                                                   *)
(***************************************************************************)
VARIABLES
    chip,       \* esfm_chip without its channel array
    channels,   \* chip->channels[18], each with its slots[4]
    buf,        \* the int16_t pair ESFM_generate last wrote
    fast_bits,  \* width of int_fast16_t / uint_fast16_t in this build
    host,       \* the calling program: its script, and its position in it
    ticks,      \* number of ESFM_generate calls made so far
    heard       \* 1 once ESFM_generate has written a non-zero sample

vars == << chip, channels, buf, fast_bits, host, ticks, heard >>

(***************************************************************************)
(* The host.  The chip is driven through its API by a calling program.  A  *)
(* script is a sequence of steps; a step offers a set of API calls (one of  *)
(* which the host makes) a number of times.                                 *)
(***************************************************************************)
Reg(address, data) == [ kind |-> "reg", a |-> address, d |-> data ]

Port(offset, data) == [ kind |-> "port", a |-> offset, d |-> data ]

Gen == [ kind |-> "gen", a |-> 0, d |-> 0 ]

Read(address) == [ kind |-> "read", a |-> address, d |-> 0 ]

ReadPort(offset) == [ kind |-> "readport", a |-> offset, d |-> 0 ]

Do(op) == [ ops |-> { op }, times |-> 1 ]

Choose(ops, n) == [ ops |-> ops, times |-> n ]

Frames(n) == [ ops |-> { Gen }, times |-> n ]

\* One step of the noise generator on its own
Noise == [ kind |-> "noise", a |-> 0, d |-> 0 ]

LfsrPeriod == Pow2(23) - 1

\* ESFM_write_reg(chip, address, data)
\* The chip after a write: the write leaves everything else alone
Written(r) ==
    /\ chip' = r.chip
    /\ channels' = r.channels
    /\ UNCHANGED << buf, fast_bits, ticks, heard >>

WriteReg(address, data) == Written(ESFM_write_reg(chip, channels, address, data))

\* ESFM_write_port(chip, offset, data)
WritePort(offset, data) == Written(ESFM_write_port(chip, channels, offset, data))

\* ESFM_generate(chip, buf)
\* The chip after ESFM_generate has returned g
Generated(g) ==
    /\ chip' = g.chip
    /\ channels' = g.channels
    /\ buf' = g.buf
    /\ ticks' = ticks + 1
    /\ heard' = IF g.buf # << 0, 0 >> THEN 1 ELSE heard
    /\ UNCHANGED fast_bits

Generate == Generated(ESFM_generate(chip, channels, fast_bits))

(***************************************************************************)
(* Scripts.  A script is named by a record; Script gives its steps.         *)
(***************************************************************************)
\* ESFM_write_reg(chip, 0x105, 0x80): the emulation-mode write that sets
\* native_mode
EnterNative == Reg(261, 128)

\* Slot register address in native mode: channel * 32 + slot * 8 + register
SlotReg(ch, slot_idx, register_idx) == ch * 32 + slot_idx * 8 + register_idx

\* The tone of channel 0, slot 0: attack 15, decay 0, sustain level 0,
\* release 8, total level 0, sine, F-number 0x200, block 4, multiplier 1,
\* output level 7, both outputs enabled; then key-on.
ToneWrites ==
    << Do(Reg(SlotReg(0, 0, 2), 240)), Do(Reg(SlotReg(0, 0, 3), 8)),
       Do(Reg(SlotReg(0, 0, 1), 0)),   Do(Reg(SlotReg(0, 0, 7), 224)),
       Do(Reg(SlotReg(0, 0, 4), 0)),   Do(Reg(SlotReg(0, 0, 5), 18)),
       Do(Reg(SlotReg(0, 0, 0), 1)),   Do(Reg(SlotReg(0, 0, 6), 48)),
       Do(Reg(KEY_ON_REGS_START, 1)) >>

ToneFrames == 1024

MaxSilentTicks == 1100

\* One period of the tremolo LFO (210 * 64 calls) and the start of the next
TimerFrames == 13504

\* A loud patch on every slot of channels 0 .. nch - 1: attack 15, output
\* level 7, square wave, F-number 0x3ff, block 7, multiplier 15, both
\* outputs enabled, modulation input level `mod`; then key-on.
LoudRegs(mod) ==
    << << 2, 240 >>, << 7, 230 >>, << 4, 255 >>, << 5, 31 >>, << 0, 15 >>,
       << 6, 48 + mod * 2 >> >>

LoudWrites(nch, mod) ==
    [ i \in 1 .. nch * 24 |->
        LET ch == (i - 1) \div 24
            slot_idx == ((i - 1) \div 6) % 4
            rd == LoudRegs(mod)[((i - 1) % 6) + 1]
        IN  Do(Reg(SlotReg(ch, slot_idx, rd[1]), rd[2])) ]

KeyOnWrites(nch) == [ i \in 1 .. nch |-> Do(Reg(KEY_ON_REGS_START + i - 1, 1)) ]

MaxLoudChannels == 3

LoudFrames == 6

KeyOn == Reg(KEY_ON_REGS_START, 1)

KeyOff == Reg(KEY_ON_REGS_START, 0)

\* The tone with both LFOs enabled at full depth, clocked long enough for
\* the tremolo and vibrato positions to wrap.
LongWrites ==
    << Do(EnterNative),
       Do(Reg(SlotReg(0, 0, 2), 240)), Do(Reg(SlotReg(0, 0, 3), 8)),
       Do(Reg(SlotReg(0, 0, 7), 224)), Do(Reg(SlotReg(0, 0, 5), 18)),
       Do(Reg(SlotReg(0, 0, 0), 193)), Do(Reg(SlotReg(0, 0, 6), 240)),
       Do(KeyOn) >>

LongFrames == 8200

\* A patch of channel 0, slot 0 chosen register by register (attack 15 or
\* 12, release 8 or 15 with sustain level 0 or 15, envelope delay 0 or 1),
\* then any interleaving of key-on, key-off and ESFM_generate.
PatchSteps == 5

PatchScript ==
    << Do(EnterNative),
       Choose({ Reg(SlotReg(0, 0, 2), 240), Reg(SlotReg(0, 0, 2), 196) }, 1),
       Choose({ Reg(SlotReg(0, 0, 3), 8), Reg(SlotReg(0, 0, 3), 255) }, 1),
       Choose({ Reg(SlotReg(0, 0, 5), 31), Reg(SlotReg(0, 0, 5), 62) }, 1),
       Do(Reg(SlotReg(0, 0, 4), 255)),
       Do(Reg(SlotReg(0, 0, 0), 47)),
       Do(Reg(SlotReg(0, 0, 7), 224)),
       Choose({ Gen, KeyOn, KeyOff }, PatchSteps) >>

\* Any calls at all on a fresh chip: register writes in either mode, port
\* writes that set the address latch, write through it and switch modes.
FreeOps ==
    { Gen, EnterNative, Reg(SlotReg(0, 0, 2), 240), KeyOn, Reg(8, 64),
      Port(2, 5), Port(3, 128), Port(3, 2), Port(1, 1), Port(0, 2) }

FreeSteps == 4

\* Calls that reach every branch of the register file: slot registers of the
\* first and the last channel, the key-on registers of channel 0 and of the
\* two halves of channels 16 and 17, the chip registers and their images at
\* addresses with bit 9 set, an address no register answers to, all four
\* ports, and ESFM_generate.
RegsOps ==
    { Gen, EnterNative,
      Reg(SlotReg(0, 0, 1), 192), Reg(SlotReg(0, 0, 4), 255), Reg(SlotReg(0, 0, 5), 95),
      Reg(SlotReg(17, 3, 2), 240), Reg(SlotReg(17, 2, 7), 112),
      Reg(KEY_ON_REGS_START, 1),
      Reg(592, 1), Reg(593, 3), Reg(594, 1), Reg(595, 2),
      Reg(CONFIG_REG, 64), Reg(TIMER_SETUP_REG, 99),
      Reg(1538, 255), Reg(1793, 82), Reg(600, 255),
      Port(0, 2), Port(1, 129), Port(2, 64), Port(3, 2), Port(3, 130) }

RegsSteps == 3

RegsScript(native) ==
    IF native = 1 THEN << Do(EnterNative), Choose(RegsOps, RegsSteps) >>
                  ELSE << Choose(RegsOps, RegsSteps) >>

\* Key-on, a few frames, key-off, then only ESFM_generate.  Release rate 15
\* takes 126 frames from attenuation 0 to 0x1ff, release rate 11 takes 2016.
KeyOnFrames == 3

ReleaseFrames == 2100

KeyOffScript(release_rate) ==
    << Do(EnterNative),
       Do(Reg(SlotReg(0, 0, 2), 240)), Do(Reg(SlotReg(0, 0, 3), release_rate)),
       Do(Reg(SlotReg(0, 0, 7), 224)), Do(Reg(SlotReg(0, 0, 5), 18)),
       Do(Reg(SlotReg(0, 0, 0), 1)),
       Do(KeyOn), Frames(KeyOnFrames), Do(KeyOff), Frames(ReleaseFrames) >>

\* Slots 2 and 3 of channels 7 .. 7 + nch - 1 at two unrelated pitches, slot 3
\* in rhythm mode rhy (1 snare drum, 2 hi-hat, 3 top cymbal), then only
\* ESFM_generate.
RhythmFrames == 150

RhythmWrites(ch, rhy) ==
    << Do(Reg(SlotReg(ch, 2, 4), 51)),  Do(Reg(SlotReg(ch, 2, 5), 25)),
       Do(Reg(SlotReg(ch, 2, 0), 1)),
       Do(Reg(SlotReg(ch, 3, 4), 165)), Do(Reg(SlotReg(ch, 3, 5), 22 + (ch % 2))),
       Do(Reg(SlotReg(ch, 3, 0), 3)),
       Do(Reg(SlotReg(ch, 3, 7), 224 + rhy * 8)) >>

RhythmScript(nch, rhy) ==
    << Do(EnterNative) >> \o RhythmWrites(7, rhy)
       \o (IF nch > 1 THEN RhythmWrites(8, rhy) ELSE << >>)
       \o << Frames(RhythmFrames) >>

\* The same envelope on slot 0 of channel 0 at a low pitch (block 0, F-number
\* 0x100) and on slot 0 of channel 1 at a high pitch (block 7, F-number
\* 0x3ff), both with KSR set: attack 15 / decay 14 / release 14 or attack 14 /
\* decay 15 / release 15, sustain level sl, sustaining or not.  Both are keyed
\* on, held for AdsrHoldFrames calls, keyed off and released for
\* AdsrReleaseFrames calls.
AdsrHoldFrames == 100

AdsrReleaseFrames == 180

AdsrWrites(ch, fast_attack, sl, sus) ==
    << Do(Reg(SlotReg(ch, 0, 2), IF fast_attack = 1 THEN 254 ELSE 239)),
       Do(Reg(SlotReg(ch, 0, 3), sl * 16 + (IF fast_attack = 1 THEN 14 ELSE 15))),
       Do(Reg(SlotReg(ch, 0, 4), IF ch = 0 THEN 0 ELSE 255)),
       Do(Reg(SlotReg(ch, 0, 5), IF ch = 0 THEN 1 ELSE 31)),
       Do(Reg(SlotReg(ch, 0, 0), 17 + 32 * sus)),
       Do(Reg(SlotReg(ch, 0, 7), 224)) >>

AdsrScript(fast_attack, sl, sus) ==
    << Do(EnterNative) >>
       \o AdsrWrites(0, fast_attack, sl, sus) \o AdsrWrites(1, fast_attack, sl, sus)
       \o << Do(Reg(KEY_ON_REGS_START, 1)), Do(Reg(KEY_ON_REGS_START + 1, 1)),
             Frames(AdsrHoldFrames),
             Do(Reg(KEY_ON_REGS_START, 0)), Do(Reg(KEY_ON_REGS_START + 1, 0)),
             Frames(AdsrReleaseFrames) >>

\* Key-on again `gap` frames into the release.
\* The tone with key-scale level 1, keyed on and clocked for a few frames,
\* then the host's choice of register reads, port reads, the writes that set
\* what they read, and ESFM_generate.
ReadWarmFrames == 6

ReadOps ==
    { Gen,
      Read(SlotReg(0, 0, 0)), Read(SlotReg(0, 0, 1)), Read(SlotReg(0, 0, 5)),
      Read(SlotReg(1, 0, 1)), Read(KEY_ON_REGS_START), Read(593), Read(CONFIG_REG),
      ReadPort(0), ReadPort(1), ReadPort(3),
      Port(2, 9), Reg(SlotReg(0, 0, 0), 17), Reg(SlotReg(0, 0, 5), 0),
      Reg(SlotReg(0, 0, 5), 31), Reg(593, 3) }

ReadSteps == 3

ReadScript(native) ==
    (IF native = 1 THEN << Do(EnterNative) >> ELSE << >>)
    \o ToneWrites
    \o << Do(Reg(SlotReg(0, 0, 1), 64)), Frames(ReadWarmFrames),
          Choose(ReadOps, ReadSteps) >>

\* A sine patch on the four slots of channels 0 and 15, each slot at its own
\* pitch, with modulation input level `mod` and slot 3 in rhythm mode `rhy`;
\* then key-on and only ESFM_generate.
OrderFrames == 30

OrderWrites(ch, mod, rhy) ==
    [ i \in 1 .. 24 |->
        LET k == (i - 1) \div 6
            rd == << << 2, 240 >>, << 7, 224 + (IF k = 3 THEN rhy * 8 ELSE 0) >>,
                     << 4, 64 + 48 * k >>, << 5, 26 + k >>, << 0, 1 + k >>,
                     << 6, 48 + mod * 2 >> >>[((i - 1) % 6) + 1]
        IN  Do(Reg(SlotReg(ch, k, rd[1]), rd[2])) ]

OrderScript(mod, rhy) ==
    << Do(EnterNative) >> \o OrderWrites(0, mod, rhy) \o OrderWrites(15, mod, rhy)
       \o << Do(Reg(KEY_ON_REGS_START, 1)), Do(Reg(KEY_ON_REGS_START + 15, 1)),
             Frames(OrderFrames) >>

RekeyScript(gap) ==
    << Do(EnterNative),
       Do(Reg(SlotReg(0, 0, 2), 240)), Do(Reg(SlotReg(0, 0, 3), 15)),
       Do(Reg(SlotReg(0, 0, 7), 224)), Do(Reg(SlotReg(0, 0, 5), 18)),
       Do(Reg(SlotReg(0, 0, 0), 1)),
       Do(KeyOn), Frames(KeyOnFrames), Do(KeyOff), Frames(gap),
       Do(KeyOn), Frames(KeyOnFrames) >>

Script(sc) ==
    CASE sc.name = "silent" -> << Frames(MaxSilentTicks) >>
      [] sc.name = "long" -> LongWrites \o << Frames(LongFrames) >>
      [] sc.name = "patch" -> PatchScript
      [] sc.name = "free" -> << Choose(FreeOps, FreeSteps) >>
      [] sc.name = "keyoff" -> KeyOffScript(sc.release_rate)
      [] sc.name = "rekey" -> RekeyScript(sc.gap)
      [] sc.name = "adsr" -> AdsrScript(sc.fast_attack, sc.sl, sc.sus)
      [] sc.name = "regs" -> RegsScript(sc.native)
      [] sc.name = "read" -> ReadScript(sc.native)
      [] sc.name = "order" -> OrderScript(sc.mod, sc.rhy)
      [] sc.name = "timers" -> << Frames(TimerFrames) >>
      [] sc.name = "rhythm" -> RhythmScript(sc.nch, sc.rhy)
      [] sc.name = "lfsr" -> << Choose({ Noise }, LfsrPeriod) >>
      [] sc.name = "tone" -> ToneWrites \o << Frames(ToneFrames) >>
      [] sc.name = "tone_native" ->
            << Do(EnterNative) >> \o ToneWrites \o << Frames(ToneFrames) >>
      [] sc.name = "loud" ->
            << Do(EnterNative) >> \o LoudWrites(sc.nch, sc.mod)
               \o KeyOnWrites(sc.nch) \o << Frames(LoudFrames) >>

\* The step the host is at, and whether the script has ended
AtEnd == host.ip > Len(Script(host.script))

CurStep == Script(host.script)[host.ip]

Advanced ==
    IF host.rep + 1 >= CurStep.times
        THEN [ host EXCEPT !.ip = @ + 1, !.rep = 0 ]
        ELSE [ host EXCEPT !.rep = @ + 1 ]

Advance == host' = Advanced

HostWriteReg ==
    /\ ~AtEnd
    /\ \E op \in CurStep.ops :
          /\ op.kind = "reg"
          /\ WriteReg(op.a, op.d)
    /\ Advance

HostWritePort ==
    /\ ~AtEnd
    /\ \E op \in CurStep.ops :
          /\ op.kind = "port"
          /\ WritePort(op.a, op.d)
    /\ Advance

HostGenerate ==
    /\ ~AtEnd
    /\ Gen \in CurStep.ops
    /\ Generate
    /\ Advance

\* ESFM_readback_reg(chip, address), ESFM_read_port(chip, offset)
\* The chip after a read has returned r; the host keeps the byte it was given
HasRead(r) ==
    /\ chip' = r.chip
    /\ channels' = r.channels
    /\ host' = [ Advanced EXCEPT !.data = r.data ]
    /\ UNCHANGED << buf, fast_bits, ticks, heard >>

HostReadReg ==
    /\ ~AtEnd
    /\ \E op \in CurStep.ops :
          /\ op.kind = "read"
          /\ HasRead(ESFM_readback_reg(chip, channels, op.a, fast_bits))

HostReadPort ==
    /\ ~AtEnd
    /\ \E op \in CurStep.ops :
          /\ op.kind = "readport"
          /\ HasRead(ESFM_read_port(chip, channels, op.a, fast_bits))

\* The noise generator stepped on its own, LfsrBlock steps at a time up to
\* LfsrPeriod steps.  A run records the value reached, how many of the steps
\* produced the value 1 and how many a value that is not a non-zero 23-bit
\* value.
LfsrBlock == 47

LfsrSeen(run, noise) ==
    [ lfsr |-> noise,
      ones |-> run.ones + (IF noise = 1 THEN 1 ELSE 0),
      strays |-> run.strays + (IF noise \in 1 .. LfsrPeriod THEN 0 ELSE 1) ]

RECURSIVE LfsrRun(_, _)
LfsrRun(run, n) ==
    IF n = 0 \/ run.strays < 0 THEN run
    ELSE LfsrRun(LfsrSeen(run, LfsrStep(run.lfsr)), n - 1)

NoiseRan(run, n) ==
    /\ chip' = [ chip EXCEPT !.lfsr = run.lfsr ]
    /\ host' = [ host EXCEPT !.rep = @ + n,
                             !.ip = IF host.rep + n >= LfsrPeriod THEN 2 ELSE 1,
                             !.ones = run.ones,
                             !.strays = run.strays ]
    /\ UNCHANGED << channels, buf, fast_bits, ticks, heard >>

NoiseBlock(n) ==
    NoiseRan(LfsrRun([ lfsr |-> chip.lfsr, ones |-> host.ones,
                       strays |-> host.strays ], n), n)

HostNoise ==
    /\ host.script.name = "lfsr"
    /\ host.ip = 1
    /\ NoiseBlock(IF LfsrPeriod - host.rep < LfsrBlock
                     THEN LfsrPeriod - host.rep ELSE LfsrBlock)

InitWith(scripts) ==
    /\ chip = ESFM_init.chip
    /\ channels = ESFM_init.channels
    /\ buf = << 0, 0 >>
    /\ fast_bits \in FastWidths
    /\ host \in [ script : scripts, ip : { 1 }, rep : { 0 } ]
    /\ ticks = 0
    /\ heard = 0

(***************************************************************************)
(* A freshly initialised chip that is only clocked.                         *)
(***************************************************************************)
InitSilent == InitWith({ [ name |-> "silent" ] })

NextSilent == HostGenerate

SpecSilent == InitSilent /\ [][NextSilent]_vars

(***************************************************************************)
(* The tone programmed through ESFM_write_reg, from a fresh chip and from   *)
(* a chip first switched to native mode.                                    *)
(***************************************************************************)
InitTone == InitWith({ [ name |-> "tone" ], [ name |-> "tone_native" ] })

NextTone == HostWriteReg \/ HostGenerate

SpecTone == InitTone /\ [][NextTone]_vars

(***************************************************************************)
(* C1.  Starting from ESFM_init with no register or port write ever made,   *)
(* every call to ESFM_generate writes the stereo sample (0, 0).  Checked    *)
(* under SpecSilent, where the host only calls ESFM_generate.               *)
(***************************************************************************)
C1_FreshChipIsSilent == buf = << 0, 0 >> /\ heard = 0

\* 1024 frames have been generated from the fresh chip, all of them zero
C1_Witness == ticks >= 1024 /\ heard = 0 /\ buf = << 0, 0 >>

(***************************************************************************)
(* C2.  Two chip instances given the same calls produce the same samples.   *)
(* Every operator of this module is a function of its arguments, as every   *)
(* function of the source is a function of the chip structure and its       *)
(* arguments (no global state, no uninitialised read); two copies of the    *)
(* chip stepped by the same operators agree by construction, so the model   *)
(* has no formula for this claim that the code could fail.                  *)
(***************************************************************************)

(***************************************************************************)
(* Loud patches on one to MaxLoudChannels channels, with and without        *)
(* modulation input on every slot.                                          *)
(***************************************************************************)
InitLoud ==
    InitWith([ name : { "loud" }, nch : 1 .. MaxLoudChannels, mod : { 0, 7 } ])

NextLoud == HostWriteReg \/ HostGenerate

SpecLoud == InitLoud /\ [][NextLoud]_vars

\* The contribution of slot `slot_idx` of channel `ch` to output i, as an
\* unbounded integer
SlotContribution(ch, slot_idx, i) ==
    LET slot == channels[ch].slots[slot_idx]
    IN  IF slot.output_level # 0 /\ slot.out_enable[i] # 0
           THEN Shr(slot.output, 7 - slot.output_level)
           ELSE 0

ChannelSum(ch, i) ==
    SlotContribution(ch, 0, i) + SlotContribution(ch, 1, i)
    + SlotContribution(ch, 2, i) + SlotContribution(ch, 3, i)

RECURSIVE ChipSum(_, _)
ChipSum(ch, i) == IF ch < 0 THEN 0 ELSE ChipSum(ch - 1, i) + channels[ch].output[i]

Saturated(x) == IF x > 32767 THEN 32767 ELSE IF x < -32768 THEN -32768 ELSE x

MixIsExact ==
    \A i \in 1 .. 2 :
        /\ \A ch \in 0 .. NumChannels - 1 : channels[ch].output[i] = ChannelSum(ch, i)
        /\ chip.output_accm[i] = ChipSum(NumChannels - 1, i)
        /\ buf[i] = Saturated(chip.output_accm[i])

(***************************************************************************)
(* C3.  Every ESFM_generate call writes, for the left and for the right     *)
(* output, the sum of the 18 channel outputs saturated to [-32768, 32767];  *)
(* each channel output is the exact integer sum of its slots' contributions *)
(* and the chip accumulator the exact sum of the channel outputs (neither   *)
(* wraps before the clip).                                                  *)
(***************************************************************************)
C3_MixSaturates == [][ticks' = ticks + 1 => MixIsExact']_vars

\* a sample was clipped: the sum of the channels exceeded 32767
C3_Witness ==
    /\ ticks > 0
    /\ AtEnd
    /\ ChipSum(NumChannels - 1, 1) > 32767
    /\ buf[1] = 32767

(***************************************************************************)
(* The chip under any calls: free calls on a fresh chip, a patch followed   *)
(* by free key-on, key-off and generate calls, and a long run of a sounding *)
(* patch.                                                                   *)
(***************************************************************************)
Init == InitWith({ [ name |-> "free" ], [ name |-> "patch" ], [ name |-> "long" ] })

Next == HostWriteReg \/ HostWritePort \/ HostGenerate

Spec == Init /\ [][Next]_vars

SlotInRange(slot) ==
    /\ slot.eg_position \in 0 .. 511
    /\ slot.phase_acc \in 0 .. (Pow2(19) - 1)
    /\ slot.eg_state \in { EG_ATTACK, EG_DECAY, EG_SUSTAIN, EG_RELEASE }

(***************************************************************************)
(* C4.  After every ESFM_generate call, whatever writes came before it,     *)
(* every slot has eg_position in [0, 0x1ff], phase_acc in [0, 2^19) and     *)
(* eg_state one of ATTACK, DECAY, SUSTAIN, RELEASE, and the chip has a      *)
(* non-zero lfsr, vibrato_pos in [0, 7] and global_timer in [0, 0x3ff].     *)
(* The writes leave these fields alone, so it holds in every state.         *)
(***************************************************************************)
C4_StateInRange ==
    /\ \A ch \in 0 .. NumChannels - 1 :
          \A slot_idx \in 0 .. 3 : SlotInRange(channels[ch].slots[slot_idx])
    /\ chip.lfsr # 0
    /\ chip.vibrato_pos \in 0 .. 7
    /\ chip.global_timer \in 0 .. 1023

\* a sounding slot after the vibrato position and the global timer wrapped
C4_Witness ==
    /\ ticks >= 8192
    /\ chip.vibrato_pos = 0
    /\ chip.global_timer < 8
    /\ chip.lfsr # 1
    /\ channels[0].slots[0].phase_acc > 0
    /\ channels[0].slots[0].eg_state # EG_RELEASE
    /\ channels[0].slots[0].eg_position < 511

(***************************************************************************)
(* C5, as stated.  After every ESFM_generate call the tremolo output is in  *)
(* [0, 104].  The triangle of ESFM_update_timers peaks at tremolo_pos =     *)
(* 105, where the else branch yields 210 - 105 = 105: the statement fails   *)
(* on the 6720th call.                                                      *)
(***************************************************************************)
C5_TremoloAtMost104 == chip.tremolo \in 0 .. 104

(***************************************************************************)
(* C5, amended.  After every ESFM_generate call the tremolo output is in    *)
(* [0, 105].                                                                *)
(***************************************************************************)
C5_TremoloAtMost105 == chip.tremolo \in 0 .. 105

\* the peak of the triangle
C5_Witness == ticks > 0 /\ chip.tremolo_pos = 105 /\ chip.tremolo = 105

(***************************************************************************)
(* Key-on and key-off of channel 0: the tone released at rate 0, 11 or 15,  *)
(* the tone keyed on again during and after its release, and the patch      *)
(* with free key-on, key-off and generate calls.                            *)
(***************************************************************************)
ReleaseRates == { 0, 11, 15 }

RekeyGaps == { 1, 5, 130 }

InitKeyOff ==
    InitWith([ name : { "keyoff" }, release_rate : ReleaseRates ]
             \cup [ name : { "rekey" }, gap : RekeyGaps ]
             \cup { [ name |-> "patch" ] })

NextKeyOff == HostWriteReg \/ HostGenerate

SpecKeyOff == InitKeyOff /\ [][NextKeyOff]_vars

\* The key-off was followed by ReleaseFrames calls of ESFM_generate and no
\* write
ReleaseOver == host.script.name = "keyoff" /\ AtEnd

KeyedOff(ch, slot_idx) ==
    DerefKeyOn(channels, channels[ch].slots[slot_idx].key_on) = 0

\* The slots that observe a deasserted key-on bit, whatever their release rate
KeyedOffSlots ==
    { cs \in (0 .. NumChannels - 1) \X (0 .. 3) : KeyedOff(cs[1], cs[2]) }

ReleasingSlots ==
    { cs \in KeyedOffSlots : channels[cs[1]].slots[cs[2]].release_rate # 0 }

Silenced(slots) == \A cs \in slots : channels[cs[1]].slots[cs[2]].eg_position = 511

\* An ESFM_generate call leaves a keyed-off slot at 0x1ff there
StaysSilenced ==
    \A ch \in 0 .. NumChannels - 1 : \A slot_idx \in 0 .. 3 :
        (/\ ticks' = ticks + 1
         /\ KeyedOff(ch, slot_idx)
         /\ channels[ch].slots[slot_idx].eg_position = 511)
            => channels'[ch].slots[slot_idx].eg_position = 511

(***************************************************************************)
(* C6, as stated.  For every slot and any release_rate, once the key-on bit *)
(* the slot observes is deasserted and no further write is made, finitely   *)
(* many ESFM_generate calls (here ReleaseFrames of them) bring the slot's   *)
(* eg_position to 0x1ff.  With release_rate = 0 the envelope rate is zero,  *)
(* shift stays 0 and eg_inc is 0 on every tick: the slot keyed off at       *)
(* attenuation 0 is still there after ReleaseFrames calls.                  *)
(***************************************************************************)
C6_AnyRateReleases == ReleaseOver => Silenced(KeyedOffSlots)

(***************************************************************************)
(* C6, amended.  For every slot whose release_rate is not 0, once the       *)
(* key-on bit the slot observes is deasserted and no further write is made, *)
(* finitely many ESFM_generate calls (at most ReleaseFrames for the rates   *)
(* of ReleaseRates) bring the slot's eg_position to 0x1ff, and every        *)
(* further call leaves a keyed-off slot at 0x1ff.                           *)
(***************************************************************************)
C6_NonZeroRateReleases ==
    /\ [](ReleaseOver => Silenced(ReleasingSlots))
    /\ [][StaysSilenced]_vars

\* the tone released at rate 11 has gone from attenuation 0 to 0x1ff
C6_Witness ==
    /\ ReleaseOver
    /\ channels[0].slots[0].release_rate = 11
    /\ channels[0].slots[0].eg_state = EG_RELEASE
    /\ channels[0].slots[0].eg_position = 511

\* Slot (ch, slot_idx) is in RELEASE with no envelope delay pending, instant
\* attack programmed, and observes key-on
FirstKeyOn(ch, slot_idx) ==
    /\ channels[ch].slots[slot_idx].eg_state = EG_RELEASE
    /\ channels[ch].slots[slot_idx].env_delay = 0
    /\ channels[ch].slots[slot_idx].eg_delay_run = 0
    /\ channels[ch].slots[slot_idx].attack_rate = 15
    /\ DerefKeyOn(channels, channels[ch].slots[slot_idx].key_on) # 0

(***************************************************************************)
(* C9.  For a slot in RELEASE with env_delay = 0 and attack_rate = 15, the  *)
(* ESFM_generate call on which it first observes key-on asserted sets its   *)
(* eg_position to 0 and its eg_state to ATTACK: minimum attenuation is      *)
(* reached on the first tick after key-on, fewer than 50.                   *)
(***************************************************************************)
C9_InstantAttack ==
    [][ \A ch \in 0 .. NumChannels - 1 : \A slot_idx \in 0 .. 3 :
          (ticks' = ticks + 1 /\ FirstKeyOn(ch, slot_idx))
              => /\ channels'[ch].slots[slot_idx].eg_position = 0
                 /\ channels'[ch].slots[slot_idx].eg_state = EG_ATTACK ]_vars

\* the tone keyed on again in mid-release, one ESFM_generate call later
C9_Witness ==
    /\ host.script.name = "rekey"
    /\ host.script.gap = 5
    /\ host.ip = Len(Script(host.script))
    /\ host.rep = 1
    /\ channels[0].slots[0].eg_state = EG_ATTACK
    /\ channels[0].slots[0].eg_position = 0

(***************************************************************************)
(* The noise generator iterated from the value ESFM_init gives it.  The     *)
(* lfsr is a 32-bit unsigned word in every build and the step reads no      *)
(* other state, so the rest of the chip and the channels are left out.      *)
(***************************************************************************)
InitLfsr ==
    /\ chip = [ lfsr |-> ESFM_init.chip.lfsr ]
    /\ channels = << >>
    /\ buf = << 0, 0 >>
    /\ fast_bits = 64
    /\ host = [ script |-> [ name |-> "lfsr" ], ip |-> 1, rep |-> 0,
                ones |-> 0, strays |-> 0 ]
    /\ ticks = 0
    /\ heard = 0

NextLfsr == HostNoise

SpecLfsr == InitLfsr /\ [][NextLfsr]_vars

(***************************************************************************)
(* C7.  The LFSR step iterated from 1 is maximal-length: every value it     *)
(* takes is a non-zero 23-bit value, and it is 1 again after exactly        *)
(* 2^23 - 1 steps and after no fewer.  The 2^23 - 1 values before the first *)
(* return are then pairwise distinct (two equal ones would bring the 1 back *)
(* earlier), so they are all the non-zero 23-bit values.                    *)
(***************************************************************************)
C7_LfsrMaximalLength ==
    /\ host.strays = 0
    /\ chip.lfsr \in 1 .. LfsrPeriod
    /\ host.rep < LfsrPeriod => host.ones = 0
    /\ host.rep = LfsrPeriod => host.ones = 1 /\ chip.lfsr = 1

\* the 1 is back at step 2^23 - 1, for the first time
C7_Witness ==
    /\ AtEnd
    /\ host.script.name = "lfsr"
    /\ host.rep = LfsrPeriod
    /\ host.ones = 1
    /\ chip.lfsr = 1

(***************************************************************************)
(* C8, as stated.  On a freshly initialised chip, the tone written through  *)
(* ESFM_write_reg (slot registers of channel 0 slot 0, then the channel-0   *)
(* key-on register) and followed by 1024 ESFM_generate calls produces a     *)
(* non-zero sample.  ESFM_init leaves native_mode = 0, so ESFM_write_reg    *)
(* takes ESFM_write_reg_emu, which stores none of these writes: the slot    *)
(* is never programmed nor keyed on and all 1024 samples are (0, 0).        *)
(***************************************************************************)
C8_FreshChipTone == (host.script.name = "tone" /\ AtEnd) => heard = 1

(***************************************************************************)
(* C8, amended.  On a freshly initialised chip first switched to native     *)
(* mode by ESFM_write_reg(0x105, 0x80), the same writes followed by 1024    *)
(* ESFM_generate calls produce at least one non-zero sample.                *)
(***************************************************************************)
C8_NativeModeTone == (host.script.name = "tone_native" /\ AtEnd) => heard = 1

\* the 1024 frames of the tone written in native mode, some of them non-zero
C8_Witness ==
    /\ host.script.name = "tone_native"
    /\ AtEnd
    /\ ticks = ToneFrames
    /\ chip.native_mode = 1
    /\ channels[0].key_on = 1
    /\ heard = 1

(***************************************************************************)
(* C10.  On every tick the output of every slot is within the signed 13-bit *)
(* range [-4096, 4095].  It fails where int16 and uint16 are wider than 16  *)
(* bits (the fast types of esfm.h on a 64-bit target): the waveform         *)
(* functions negate with `^ neg`, neg = 0xffff, which in a wider word gives *)
(* 65535 - v instead of -(v + 1).                                           *)
(***************************************************************************)
C10_SlotOutputIn13Bits ==
    \A ch \in 0 .. NumChannels - 1 : \A slot_idx \in 0 .. 3 :
        channels[ch].slots[slot_idx].output \in -4096 .. 4095

(***************************************************************************)
(* The rhythm modes of slot 3, on channel 7 alone and on channels 7 and 8.  *)
(***************************************************************************)
InitRhythm == InitWith([ name : { "rhythm" }, nch : 1 .. 2, rhy : 1 .. 3 ])

NextRhythm == HostWriteReg \/ HostGenerate

SpecRhythm == InitRhythm /\ [][NextRhythm]_vars

\* The lfsr n steps after `noise`
RECURSIVE LfsrAfter(_, _)
LfsrAfter(noise, n) ==
    IF n = 0 THEN noise
    ELSE CHOOSE r \in { LfsrAfter(x, n - 1) : x \in { LfsrStep(noise) } } : TRUE

\* Bit 0 of the lfsr that slot 3 of channel ch reads on the coming tick:
\* the slots before it have stepped the lfsr once each
HiHatNoiseBit(ch) == LfsrAfter(chip.lfsr, 4 * ch + 3) % 2

\* rm_xor as the rhythm bits latched in chip c give it
LatchedRmXor(c) ==
    Or1(Or1(Xor1(c.rm_hh_bit2, c.rm_hh_bit7), Xor1(c.rm_hh_bit3, c.rm_tc_bit5)),
        Xor1(c.rm_tc_bit3, c.rm_tc_bit5))

\* The last channel whose slot 3 is in a rhythm mode leaves its bits latched
LastRhythmChannel(ch) ==
    \A other \in ch + 1 .. NumChannels - 1 : channels[other].slots[3].rhy_noise = 0

HiHatPatterns == { 208, 52, 512 + 208, 512 + 52 }

(***************************************************************************)
(* C11.  For slot 3 of any channel with rhy_noise = 2, every ESFM_generate  *)
(* call leaves phase_out one of 0x0d0, 0x034, 0x2d0, 0x234: bit 9 is        *)
(* rm_xor (read back from the bits the slot latched in the chip), and the   *)
(* low bits are 0xd0 when rm_xor XOR bit 0 of the lfsr value the slot read  *)
(* is 1 and 0x34 otherwise.                                                 *)
(***************************************************************************)
C11_HiHatPhase ==
    [][ \A ch \in 0 .. NumChannels - 1 :
          (ticks' = ticks + 1 /\ channels[ch].slots[3].rhy_noise = 2)
              => /\ channels'[ch].slots[3].phase_out \in HiHatPatterns
                 /\ (channels'[ch].slots[3].phase_out % 512 = 208)
                      <=> (Xor1(Bit(channels'[ch].slots[3].phase_out, 9),
                                HiHatNoiseBit(ch)) = 1)
                 /\ LastRhythmChannel(ch)
                      => Bit(channels'[ch].slots[3].phase_out, 9) = LatchedRmXor(chip')
      ]_vars

\* both hi-hats have sounded, one with rm_xor = 0 and one with rm_xor = 1
C11_Witness ==
    /\ ticks > 0
    /\ channels[7].slots[3].rhy_noise = 2
    /\ channels[8].slots[3].rhy_noise = 2
    /\ channels[7].slots[3].phase_out \in { 208, 52 }
    /\ channels[8].slots[3].phase_out \in { 512 + 208, 512 + 52 }

(***************************************************************************)
(* The LFOs of a chip that is only clocked, for more than one tremolo       *)
(* period.  The timers read no slot state and no type narrower than their   *)
(* own, so one build is followed.                                           *)
(***************************************************************************)
InitTimers == InitWith({ [ name |-> "timers" ] }) /\ fast_bits = 64

NextTimers == HostGenerate

SpecTimers == InitTimers /\ [][NextTimers]_vars

\* The tremolo output after t calls: t \div 64 steps along a triangle of 210
\* steps
TremoloAfter(t) ==
    IF (t \div 64) % 210 < 105 THEN (t \div 64) % 210 ELSE 210 - ((t \div 64) % 210)

(***************************************************************************)
(* C12.  The tremolo output after each ESFM_generate call is periodic with  *)
(* period exactly 210 * 64 = 13440 calls: it changes only on the calls      *)
(* that find (global_timer & 0x3f) = 0x3f, every such call moves it by one, *)
(* and after t calls it is the value of the triangle of 210 steps at step   *)
(* t \div 64 (up for 105 steps, down for 105), which repeats after 13440    *)
(* calls and no sooner.                                                     *)
(***************************************************************************)
C12_TremoloPeriod ==
    /\ [](chip.tremolo = TremoloAfter(ticks))
    /\ [][ticks' = ticks + 1 =>
            IF chip.global_timer % 64 = 63
               THEN chip'.tremolo - chip.tremolo \in { 1, -1 }
               ELSE chip'.tremolo = chip.tremolo]_vars

\* one period is over: the tremolo is back at 0 and about to rise again
C12_Witness ==
    /\ ticks = 13440
    /\ chip.tremolo_pos = 0
    /\ chip.tremolo = 0

(***************************************************************************)
(* C13.  vibrato_pos is incremented modulo 8 on exactly the ESFM_generate   *)
(* calls that find global_timer = 0x3ff, so it completes one cycle 0 .. 7   *)
(* every 8 * 1024 = 8192 calls: after t calls it is (t \div 1024) mod 8.     *)
(***************************************************************************)
C13_VibratoPeriod ==
    /\ [](chip.vibrato_pos = (ticks \div 1024) % 8 /\ chip.global_timer = ticks % 1024)
    /\ [][ticks' = ticks + 1 =>
            chip'.vibrato_pos = IF chip.global_timer = 1023
                                   THEN (chip.vibrato_pos + 1) % 8
                                   ELSE chip.vibrato_pos]_vars

\* one cycle is over: vibrato_pos has just wrapped from 7 to 0
C13_Witness ==
    /\ ticks = 8192
    /\ chip.vibrato_pos = 0
    /\ chip.global_timer = 0

(***************************************************************************)
(* The register file: up to RegsSteps calls chosen freely from RegsOps, on  *)
(* a fresh chip or on one just switched to native mode.                     *)
(***************************************************************************)
InitRegs == InitWith([ name : { "regs" }, native : { 0, 1 } ])

NextRegs == HostWriteReg \/ HostWritePort \/ HostGenerate

SpecRegs == InitRegs /\ [][NextRegs]_vars

\* What ESFM_init points slot->in.mod_input and slot->in.key_on at
WiredModInput(ch, k) ==
    IF k = 0 THEN [ channel |-> ch, slot |-> 0, field |-> "feedback_buf" ]
             ELSE [ channel |-> ch, slot |-> k - 1, field |-> "output" ]

WiredKeyOn(ch, k) ==
    IF ch \in { 16, 17 } /\ k \in { 2, 3 }
       THEN [ channel |-> ch, field |-> "key_on_2" ]
       ELSE [ channel |-> ch, field |-> "key_on" ]

(***************************************************************************)
(* C14.  After ESFM_init and after any sequence of register writes, port    *)
(* writes and ESFM_generate calls the slot wiring is the same: slot 0 of    *)
(* every channel takes its modulation input from its own feedback_buf,      *)
(* slot k in 1 .. 3 from the output of slot k - 1 of the same channel;      *)
(* slots 2 and 3 of channels 16 and 17 observe their channel's key_on_2,    *)
(* every other slot its channel's key_on.                                   *)
(***************************************************************************)
C14_WiringFixed ==
    \A ch \in 0 .. NumChannels - 1 : \A k \in 0 .. 3 :
        /\ channels[ch].slots[k].mod_input = WiredModInput(ch, k)
        /\ channels[ch].slots[k].key_on = WiredKeyOn(ch, k)

\* native mode, a register of channel 17 slot 3 written, and the chip clocked
C14_Witness ==
    /\ chip.native_mode = 1
    /\ channels[17].slots[3].attack_rate = 15
    /\ ticks > 0
    /\ AtEnd

\* The fields ESFM_slot_write assigns for each register index
SlotRegFields(register_idx) ==
    CASE register_idx = 0 -> { "tremolo_en", "vibrato_en", "env_sustaining", "ksr", "mult" }
      [] register_idx = 1 -> { "ksl", "t_level" }
      [] register_idx = 2 -> { "attack_rate", "decay_rate" }
      [] register_idx = 3 -> { "sustain_lvl", "release_rate" }
      [] register_idx = 4 -> { "f_num" }
      [] register_idx = 5 -> { "env_delay", "block", "f_num" }
      [] register_idx = 6 -> { "tremolo_deep", "vibrato_deep", "out_enable", "mod_in_level" }
      [] register_idx = 7 -> { "output_level", "rhy_noise", "waveform" }

\* Slot register addresses probed: every register of every slot of the
\* first channel, a middle channel and the last channel
SlotAddresses ==
    { SlotReg(ch, k, register_idx) : ch \in { 0, 9, 17 }, k \in 0 .. 3, register_idx \in 0 .. 7 }

\* Data bytes probed: 0xa5, 0x5a
RegData == { 165, 90 }

\* r differs from the present chip in nothing but the fields `fields` of slot
\* k of channel ch
OnlySlotFields(r, ch, k, fields) ==
    /\ r.chip = chip
    /\ [ r.channels EXCEPT ![ch].slots[k] = channels[ch].slots[k] ] = channels
    /\ DOMAIN r.channels[ch].slots[k] = DOMAIN channels[ch].slots[k]
    /\ \A f \in (DOMAIN channels[ch].slots[k]) \ fields :
           r.channels[ch].slots[k][f] = channels[ch].slots[k][f]

(***************************************************************************)
(* C15.  In native mode ESFM_write_reg to an address a in [0, 576) changes  *)
(* nothing but the register fields selected by a & 7 in slot (a >> 3) & 3   *)
(* of channel a >> 5: every other slot, the key-on bits and outputs of      *)
(* every channel, the chip-global state and that slot's own eg_position,    *)
(* eg_state, phase_acc, output and other fields are as before the write.    *)
(***************************************************************************)
C15_SlotWriteFrame ==
    chip.native_mode = 1 =>
        \A a \in SlotAddresses : \A d \in RegData :
            \A r \in { ESFM_write_reg(chip, channels, a, d) } :
                OnlySlotFields(r, Shr(a, 5), Shr(a, 3) % 4, SlotRegFields(a % 8))

\* F-number and block of channel 0 slot 0 and the attack rate of channel 17
\* slot 3 written in native mode
C15_Witness ==
    /\ chip.native_mode = 1
    /\ channels[0].slots[0].f_num = 1023
    /\ channels[0].slots[0].block = 7
    /\ channels[17].slots[3].attack_rate = 15
    /\ channels[17].slots[3].decay_rate = 0
    /\ channels[0].slots[0].attack_rate = 0

\* The key-on and 4-op enable bits of a channel
KeyOnFields == { "key_on", "key_on_2", "emu_mode_4op_enable", "emu_mode_4op_enable_2" }

\* Data bytes probed for the key-on registers: both bits in every combination
KeyOnData == 0 .. 3

\* r differs from the present chip in nothing but key-on and 4-op enable bits
\* of channels 16 and 17
OnlySecondKeyOn(r) ==
    /\ r.chip = chip
    /\ \A ch \in 0 .. 15 : r.channels[ch] = channels[ch]
    /\ \A ch \in 16 .. 17 :
          \A f \in (DOMAIN channels[ch]) \ KeyOnFields : r.channels[ch][f] = channels[ch][f]

(***************************************************************************)
(* C16.  In native mode ESFM_write_reg to an address in 592 .. 595 changes  *)
(* only key-on and 4-op enable bits of channel 16 or channel 17 and no      *)
(* state of channels 0 .. 15.                                               *)
(***************************************************************************)
C16_SecondKeyOnFrame ==
    chip.native_mode = 1 =>
        \A a \in 592 .. 595 : \A d \in KeyOnData :
            \A r \in { ESFM_write_reg(chip, channels, a, d) } : OnlySecondKeyOn(r)

\* max(0, (kslrom[f_num >> 6] << 2) - ((8 - block) << 5)): the offset
\* ESFM_envelope_update_ksl is written to store.  (Its `ksl` is unsigned, so
\* in the source the clamp to 0 never applies.)
KslOffsetOf(slot) ==
    LET ksl == kslrom(Shr(slot.f_num, 6)) * 4 - (8 - slot.block) * 32
    IN  IF ksl < 0 THEN 0 ELSE ksl

\* Addresses of slot registers 1, 4 and 5
KslAddresses == { a \in SlotAddresses : a % 8 \in { 1, 4, 5 } }

(***************************************************************************)
(* C17.  After a native-mode write to slot register 1, 4 or 5, with no      *)
(* readback in between, the written slot's eg_ksl_offset is                 *)
(* max(0, (kslrom[f_num >> 6] << 2) - ((8 - block) << 5)) of the slot's new *)
(* f_num and block.                                                         *)
(***************************************************************************)
C17_KslOffsetRecomputed ==
    chip.native_mode = 1 =>
        \A a \in KslAddresses : \A d \in RegData :
            \A r \in { ESFM_write_reg(chip, channels, a, d) } :
                \A slot \in { r.channels[Shr(a, 5)].slots[Shr(a, 3) % 4] } :
                    slot.eg_ksl_offset = KslOffsetOf(slot)

\* Data bytes probed for the ports
PortData == { 0, 129, 255 }

(***************************************************************************)
(* C18.  In native mode ESFM_write_port with offset 0 clears native_mode,   *)
(* whatever the data, and changes nothing else; offset 1 does what the      *)
(* native register write of the data to address addr_latch does; offset 2   *)
(* replaces the low byte of addr_latch and nothing else; offset 3 replaces  *)
(* the high byte of addr_latch and nothing else.                            *)
(***************************************************************************)
C18_NativePorts ==
    chip.native_mode = 1 =>
        \A d \in PortData :
            /\ ESFM_write_port(chip, channels, 0, d) =
                  [ chip |-> [ chip EXCEPT !.native_mode = 0 ], channels |-> channels ]
            /\ ESFM_write_port(chip, channels, 1, d) =
                  ESFM_write_reg(chip, channels, chip.addr_latch, d)
            /\ ESFM_write_port(chip, channels, 2, d) =
                  [ chip |-> [ chip EXCEPT !.addr_latch = Shr(@, 8) * 256 + d ],
                    channels |-> channels ]
            /\ ESFM_write_port(chip, channels, 3, d) =
                  [ chip |-> [ chip EXCEPT !.addr_latch = d * 256 + (@ % 256) ],
                    channels |-> channels ]

\* both bytes of the latch set through ports 2 and 3 to 0x8240, and channel 0
\* keyed on by a write to port 1
C18_Witness ==
    /\ chip.native_mode = 1
    /\ chip.addr_latch = 130 * 256 + 64
    /\ channels[0].key_on = 1

\* The addresses of the chip registers
ChipRegisters == { TIMER1_REG, TIMER2_REG, TIMER_SETUP_REG, CONFIG_REG, TEST_REG }

\* Addresses probed in [596, 2048): the first sixteen of every page of 256
\* (the chip registers and their neighbours lie there), the addresses next
\* to the key-on registers, the last addresses, and two in every 64
ProbedAddresses ==
    { a \in 596 .. 2047 : a % 256 < 16 \/ a < 612 \/ a > 2040 \/ a % 64 \in { 2, 33 } }

\* Of those, the addresses that are not the address of a chip register
UnlistedAddresses == ProbedAddresses \ ChipRegisters

\* Of those, the addresses that are not a chip register's address with bit 9
\* set either
UndecodedAddresses == { a \in UnlistedAddresses : a - 512 \notin ChipRegisters }

\* A write of 0xff to address a changes nothing and a readback of a returns 0
\* and changes nothing
AddressIgnored(a) ==
    /\ ESFM_write_reg(chip, channels, a, 255) = [ chip |-> chip, channels |-> channels ]
    /\ ESFM_readback_reg(chip, channels, a, fast_bits) =
          [ data |-> 0, chip |-> chip, channels |-> channels ]

\* Every readback in emulation mode returns 0
EmuReadsZero ==
    chip.native_mode = 0 =>
        \A a \in 0 .. 2047 : ESFM_readback_reg(chip, channels, a, fast_bits).data = 0

DelayedAttackStep(before, after, key_on, clock) ==
    (key_on # 0 /\ before.eg_state = EG_RELEASE) =>
        IF EnvDelayCounter(before, key_on) = 0
           THEN /\ after.phase_reset = 1
                /\ after.eg_state = EG_ATTACK
                /\ after.eg_delay_counter = 0
           ELSE /\ after.phase_reset = 0
                /\ after.eg_state = EG_RELEASE
                /\ after.eg_delay_counter = EnvDelayCounter(before, key_on) - clock

\* The delay of every slot counted on bit env_delay of the chip's
\* global_timer, as ESFM_envelope_calc counts it
DelayOnGlobalTimer ==
    [][ticks' = ticks + 1 =>
          \A ch \in 0 .. NumChannels - 1 : \A k \in 0 .. 3 :
              DelayedAttackStep(channels[ch].slots[k], channels'[ch].slots[k],
                                DerefKeyOn(channels, channels[ch].slots[k].key_on),
                                Bit(chip.global_timer, channels[ch].slots[k].env_delay))]_vars

(***************************************************************************)
(* C20.  Delayed re-attack: when a slot in RELEASE first observes key_on    *)
(* asserted its delay counter is loaded with 0x100 if env_delay # 0 and     *)
(* with 0 otherwise; while the counter is not zero it is decremented on     *)
(* exactly the ticks where bit env_delay of the chip's eg_timer is set, and *)
(* the slot stays in release; on the first tick where the counter is zero   *)
(* reset is asserted and the attack begins.                                 *)
(***************************************************************************)
C20_DelayOnEgTimer ==
    [][ticks' = ticks + 1 =>
          \A ch \in 0 .. NumChannels - 1 : \A k \in 0 .. 3 :
              DelayedAttackStep(channels[ch].slots[k], channels'[ch].slots[k],
                                DerefKeyOn(channels, channels[ch].slots[k].key_on),
                                Timer36Bit(chip.eg_timer, channels[ch].slots[k].env_delay))]_vars

(***************************************************************************)
(* The envelope through attack, decay, sustain and release: two slots with  *)
(* the same envelope registers at a low and a high pitch.                   *)
(***************************************************************************)
SustainLevels == { 0, 3, 15 }

InitEnvelope ==
    InitWith([ name : { "adsr" }, fast_attack : { 0, 1 }, sl : SustainLevels,
               sus : { 0, 1 } ])

NextEnvelope == HostWriteReg \/ HostGenerate

SpecEnvelope == InitEnvelope /\ [][NextEnvelope]_vars

\* The envelope state after a tick, as the state before it, the key-on the
\* slot observes and the reset asserted on the tick determine it
EnvelopeStateStep(before, after, key_on) ==
    IF key_on = 0
       THEN after.eg_state = EG_RELEASE /\ after.eg_delay_run = 0
       ELSE after.eg_state =
              CASE before.eg_state = EG_RELEASE ->
                     (IF after.phase_reset = 1 THEN EG_ATTACK ELSE EG_RELEASE)
                [] before.eg_state = EG_ATTACK ->
                     (IF before.eg_position = 0 THEN EG_DECAY ELSE EG_ATTACK)
                [] before.eg_state = EG_DECAY ->
                     (IF Shr(before.eg_position, 4) = before.sustain_lvl
                         THEN EG_SUSTAIN ELSE EG_DECAY)
                [] OTHER -> before.eg_state

(***************************************************************************)
(* C21.  Over one ESFM_generate call a slot's envelope state changes only   *)
(* as follows: with the observed key_on deasserted the state afterwards is  *)
(* RELEASE and eg_delay_run is cleared; otherwise RELEASE goes to ATTACK    *)
(* exactly when reset is asserted, ATTACK to DECAY exactly when eg_position *)
(* was 0, DECAY to SUSTAIN exactly when eg_position >> 4 equalled           *)
(* sustain_lvl, and in every other case the state stays as it was.          *)
(***************************************************************************)
C21_EnvelopeStates ==
    [][ticks' = ticks + 1 =>
          \A ch \in 0 .. NumChannels - 1 : \A k \in 0 .. 3 :
              EnvelopeStateStep(channels[ch].slots[k], channels'[ch].slots[k],
                                DerefKeyOn(channels, channels[ch].slots[k].key_on))]_vars

\* the slot has come through attack at rate 14 and decay down to sustain
\* level 15 and is held in SUSTAIN
C21_Witness ==
    /\ channels[0].slots[0].eg_state = EG_SUSTAIN
    /\ channels[0].slots[0].attack_rate = 14
    /\ channels[0].slots[0].sustain_lvl = 15
    /\ channels[0].slots[0].eg_position >= 240
    /\ channels[0].key_on = 1

\* A tick that a slot starts in DECAY, SUSTAIN or RELEASE and that is not an
\* instant-attack reset (reset asserted, stored in phase_reset, with
\* rate_hi = 0x0f for the attack rate)
FallingTick(before, after) ==
    /\ before.eg_state # EG_ATTACK
    /\ ~(after.phase_reset = 1
         /\ EnvRateHi(EnvRate(before, before.attack_rate)) = 15)

\* (eg_position & 0x1f8) == 0x1f8
EnvelopeOff(slot) == slot.eg_position >= 504

\* As claimed: on a falling tick eg_position does not decrease and the step is
\* 0, 1, 2 or 4; an envelope that is off goes to 0x1ff; in ATTACK eg_position
\* never increases.
PositionStepAsClaimed(before, after) ==
    /\ FallingTick(before, after) =>
          /\ after.eg_position - before.eg_position \in { 0, 1, 2, 4 }
          /\ EnvelopeOff(before) => after.eg_position = 511
    /\ before.eg_state = EG_ATTACK => after.eg_position <= before.eg_position

\* The step is 0, 1, 2 or 4 while the envelope is not off; an envelope that is
\* off jumps to 0x1ff, a step of up to 7, unless a reset is asserted, which
\* leaves it where it is
PositionStep(before, after) ==
    /\ FallingTick(before, after) =>
          /\ after.eg_position >= before.eg_position
          /\ ~EnvelopeOff(before) => after.eg_position - before.eg_position \in { 0, 1, 2, 4 }
          /\ (EnvelopeOff(before) /\ after.phase_reset = 0) => after.eg_position = 511
    /\ before.eg_state = EG_ATTACK => after.eg_position <= before.eg_position

(***************************************************************************)
(* C22, as claimed.  On any tick that a slot starts in DECAY, SUSTAIN or    *)
(* RELEASE without an instant-attack reset, eg_position afterwards is not   *)
(* smaller than before, the step is 0, 1, 2 or 4, and once                  *)
(* (eg_position & 0x1f8) = 0x1f8 it becomes 0x1ff and stays 0x1ff; on any   *)
(* tick that a slot starts in ATTACK eg_position never increases.           *)
(***************************************************************************)
C22_StepsOf124 ==
    [][ticks' = ticks + 1 =>
          \A ch \in 0 .. NumChannels - 1 : \A k \in 0 .. 3 :
              PositionStepAsClaimed(channels[ch].slots[k], channels'[ch].slots[k])]_vars

(***************************************************************************)
(* C22, as the code has it.  On such a tick eg_position afterwards is not   *)
(* smaller than before; the step is 0, 1, 2 or 4 as long as                 *)
(* (eg_position & 0x1f8) # 0x1f8, and from a position in 0x1f8 .. 0x1ff     *)
(* the envelope goes to 0x1ff in one step (of up to 7) and stays there; on  *)
(* any tick that a slot starts in ATTACK eg_position never increases.       *)
(***************************************************************************)
C22_PositionMonotonic ==
    [][ticks' = ticks + 1 =>
          \A ch \in 0 .. NumChannels - 1 : \A k \in 0 .. 3 :
              PositionStep(channels[ch].slots[k], channels'[ch].slots[k])]_vars

\* the released envelope has stepped from 0x1f8 to 0x1ff, a step of 7, and
\* stays there
C22_Witness ==
    /\ host.script.name = "adsr"
    /\ host.script.fast_attack = 0 /\ host.script.sl = 15 /\ host.script.sus = 0
    /\ ticks = 149
    /\ channels[0].slots[0].eg_state = EG_RELEASE
    /\ channels[0].slots[0].eg_position = 511

\* Slot 0 of channel 0 and slot 0 of channel 1 carry the same envelope
\* registers with KSR set, the first at block 0, the second at block 7 with
\* F-number 0x3ff
SamePatchTwoPitches ==
    /\ \A f \in { "attack_rate", "decay_rate", "sustain_lvl", "release_rate",
                   "env_sustaining", "ksr" } :
           channels[0].slots[0][f] = channels[1].slots[0][f]
    /\ channels[0].slots[0].ksr = 1
    /\ channels[0].slots[0].block = 0
    /\ channels[1].slots[0].block = 7
    /\ channels[1].slots[0].f_num = 1023

(***************************************************************************)
(* C23.  With KSR set the envelope rate scales with the pitch: once block   *)
(* and F-number are written the keyscale index of the high-pitched slot is  *)
(* not zero, and rate = ks + (reg_rate << 2) with                           *)
(* ks = keyscale >> (!ksr << 1) differs between the low-pitched and the     *)
(* high-pitched slot that have the same ADSR registers.                     *)
(***************************************************************************)
C23_RateScalesWithPitch ==
    SamePatchTwoPitches =>
        /\ channels[1].slots[0].keyscale # 0
        /\ \E f \in { "attack_rate", "decay_rate", "release_rate" } :
               EnvRate(channels[1].slots[0], channels[1].slots[0][f])
                  # EnvRate(channels[0].slots[0], channels[0].slots[0][f])

(***************************************************************************)
(* Reads.  The host reads registers and ports between writes and frames,    *)
(* in native and in emulation mode.                                         *)
(***************************************************************************)
InitRead ==
    /\ chip = ESFM_init.chip
    /\ channels = ESFM_init.channels
    /\ buf = << 0, 0 >>
    /\ fast_bits \in FastWidths
    /\ host \in [ script : [ name : { "read" }, native : { 0, 1 } ],
                   ip : { 1 }, rep : { 0 }, data : { 0 } ]
    /\ ticks = 0
    /\ heard = 0

NextRead ==
    HostWriteReg \/ HostWritePort \/ HostReadReg \/ HostReadPort \/ HostGenerate

SpecRead == InitRead /\ [][NextRead]_vars

\* F-numbers at both ends of each of the 16 kslrom entries
KslFNums == { 64 * i + j : i \in 0 .. 15, j \in { 0, 63 } }

\* The slot as a read of its register 1 leaves it, had it this pitch
KslRead(slot, f_num, block) ==
    ESFM_slot_readback([ slot EXCEPT !.f_num = f_num, !.block = block ], 1,
                       fast_bits).slot

(***************************************************************************)
(* C24.  For every F-number and every block 0 .. 7 the key-scale offset     *)
(* that ESFM_envelope_update_ksl stores is                                  *)
(* max(0, (kslrom[f_num >> 6] << 2) - ((8 - block) << 5)): 0 whenever the   *)
(* difference is negative, and always within 0 .. 224.                      *)
(***************************************************************************)
C24_KslOffsetClamped ==
    \A f_num \in KslFNums : \A block \in 0 .. 7 :
        \A slot \in { KslRead(channels[0].slots[0], f_num, block) } :
            /\ slot.eg_ksl_offset = KslOffsetOf(slot)
            /\ slot.eg_ksl_offset \in 0 .. 224

\* The bits of a slot register that hold a field
DefinedBits(register_idx) == IF register_idx % 8 = 6 THEN 254 ELSE 255

\* data & mask for the masks 255, 254 and 3
Masked(data, mask) ==
    CASE mask = 255 -> data % 256
      [] mask = 254 -> (data % 256) - (data % 2)
      [] mask = 3 -> data % 4

\* The byte read back from an address after this byte was written to it
ReadBack(address, data) ==
    LET wr == ESFM_write_reg(chip, channels, address, data)
    IN  ESFM_readback_reg(wr.chip, wr.channels, address, fast_bits).data

\* Bytes written: both bytes of RegData, single bits, none and all
RoundTripData == RegData \cup { 0, 16, 64, 255 }

(***************************************************************************)
(* C28.  In native mode a byte written to a slot register is read back      *)
(* from the same address on every bit that holds a field (bits 7 .. 1 of    *)
(* register 6, all eight bits of the others), and a byte written to a       *)
(* key-on address 576 .. 595 is read back as its two low bits.              *)
(***************************************************************************)
C28_RegisterRoundTrip ==
    chip.native_mode = 1 =>
        \A v \in RoundTripData :
            /\ \A a \in SlotAddresses :
                   Masked(ReadBack(a, v), DefinedBits(a)) = Masked(v, DefinedBits(a))
            /\ \A a \in KEY_ON_REGS_START .. KEY_ON_REGS_START + 19 :
                   ReadBack(a, v) = Masked(v, 3)

\* Register addresses read: slot registers 0 and 1, a key-on register, a
\* chip register
ReadProbes == { SlotReg(0, 0, 0), SlotReg(0, 0, 1), KEY_ON_REGS_START, CONFIG_REG }

\* What each read returns, made in the current state
AfterReads ==
    { ESFM_readback_reg(chip, channels, a, fast_bits) : a \in ReadProbes }
    \cup { ESFM_read_port(chip, channels, offset, fast_bits) : offset \in 0 .. 3 }

(***************************************************************************)
(* C29.  ESFM_readback_reg and ESFM_read_port have no side effect in        *)
(* either mode: the sample pair ESFM_generate writes next is the same with  *)
(* and without a read made before it, and the read leaves the chip and its  *)
(* channels as they were.                                                   *)
(***************************************************************************)
C29_ReadsChangeNothing ==
    \A r \in AfterReads :
        /\ ESFM_generate(r.chip, r.channels, fast_bits).buf
              = ESFM_generate(chip, channels, fast_bits).buf
        /\ r.chip = chip
        /\ r.channels = channels

(***************************************************************************)
(* Processing order.  Sine patches on channels 0 and 15 with each slot      *)
(* modulated by the one before it, slot 3 a melodic slot or the snare drum. *)
(***************************************************************************)
ModLevels == { 0, 5, 7 }

InitOrder == InitWith([ name : { "order" }, mod : ModLevels, rhy : { 0, 1 } ])

NextOrder == HostWriteReg \/ HostGenerate

SpecOrder == InitOrder /\ [][NextOrder]_vars

\* ESFM_generate as far as the channel loop has come when channel_idx = ch
RECURSIVE ChannelsBefore(_, _, _)
ChannelsBefore(st, ch, w) ==
    IF st.channel_idx >= ch THEN st ELSE ChannelsBefore(ChannelStep(st, w), ch, w)

\* ESFM_process_channel as far as the slot loop has come when
\* slot_idx = slot_idx
RECURSIVE SlotsBefore(_, _, _, _)
SlotsBefore(st, ch, slot_idx, w) ==
    IF st.slot_idx >= slot_idx THEN st
    ELSE SlotsBefore(SlotStep(st, ch, w), ch, slot_idx, w)

SlotsBeforeIn(before, ch, slot_idx, w) ==
    SlotsBefore([ chip |-> before.chip,
                  channels |-> [ before.channels EXCEPT
                                   ![ch].output = << 0, 0 >>,
                                   ![ch].slots[0] = ESFM_slot_calc_feedback(@, w) ],
                  slot_idx |-> 0 ], ch, slot_idx, w)

\* chip->lfsr as ESFM_phase_generate of slot slot_idx of channel ch finds it
\* in the coming ESFM_generate call
NoiseRead(ch, slot_idx) ==
    SlotsBeforeIn(ChannelsBefore([ chip |-> [ chip EXCEPT !.output_accm = << 0, 0 >> ],
                                   channels |-> channels,
                                   channel_idx |-> 0 ], ch, fast_bits),
                  ch, slot_idx, fast_bits).chip.lfsr

\* Channels whose slots are followed: the two that sound, and the last
OrderChannels == { 0, 15, 17 }

\* The output of slot k as the waveform of its phase, modulated by the
\* output slot k - 1 has after the same call
ModulatedBySlotBefore(after, k) ==
    after.slots[k].output =
        envelope_sin(after.slots[k].waveform,
                     (after.slots[k].phase_out
                      + (IF after.slots[k].mod_in_level # 0
                            THEN Shr(after.slots[k - 1].output,
                                     7 - after.slots[k].mod_in_level)
                            ELSE 0)) % 1024,
                     after.slots[k].eg_output, fast_bits)

(***************************************************************************)
(* C25.  The lfsr is 1 until the first ESFM_generate call and every call    *)
(* advances it by exactly 72 steps: slot s of channel c reads the value     *)
(* 4c + s steps after the one the call started with (so on call n, counted  *)
(* from 0, iterate 72n + 4c + s of 1), which for a snare-drum slot 3 shows   *)
(* in bits 8 and 9 of phase_out; and the output of slot k in 1 .. 3 is the  *)
(* waveform of its phase modulated by the output slot k - 1 has after the   *)
(* same call.                                                               *)
(***************************************************************************)
C25_SlotOrder ==
    /\ chip.lfsr = 1
    /\ [][ /\ ticks' = ticks => chip'.lfsr = chip.lfsr
           /\ ticks' = ticks + 1 =>
                 /\ chip'.lfsr = LfsrAfter(chip.lfsr, 72)
                 /\ \A ch \in OrderChannels :
                       /\ \A k \in 0 .. 3 :
                             NoiseRead(ch, k) = LfsrAfter(chip.lfsr, 4 * ch + k)
                       /\ channels[ch].slots[3].rhy_noise = 1 =>
                             Bit(channels'[ch].slots[3].phase_out, 8)
                                = Xor1(Bit(channels'[ch].slots[3].phase_out, 9),
                                       LfsrAfter(chip.lfsr, 4 * ch + 3) % 2)
                       /\ \A k \in 1 .. 3 : ModulatedBySlotBefore(channels'[ch], k)
      ]_vars

\* slot 1 of channel 15 has sounded under modulation by a sounding slot 0,
\* and the snare drum of the channel has read a 1 from the lfsr
C25_Witness ==
    /\ ticks >= 3
    /\ host.script.name = "order" /\ host.script.rhy = 1
    /\ channels[15].slots[1].mod_in_level = 5
    /\ Shr(channels[15].slots[0].output, 2) % 1024 # 0
    /\ channels[15].slots[1].output # 0
    /\ Bit(channels[15].slots[3].phase_out, 8) # Bit(channels[15].slots[3].phase_out, 9)

\* Slot 0 of a channel over one ESFM_generate call: the feedback is a quarter
\* of the sum of its last two outputs, rounded down, the older output is
\* replaced by the newer, and the new output is the waveform of the phase
\* with the feedback added
FeedbackStep(before, after) ==
    /\ after.feedback_buf = Shr(before.output + before.prev_output, 2)
    /\ after.prev_output = before.output
    /\ after.output =
          envelope_sin(after.waveform,
                       (after.phase_out
                        + (IF after.mod_in_level # 0
                              THEN Shr(after.feedback_buf, 7 - after.mod_in_level)
                              ELSE 0)) % 1024,
                       after.eg_output, fast_bits)

(***************************************************************************)
(* C26.  On every ESFM_generate call slot 0 of each channel gets            *)
(* feedback_buf = (output + prev_output) >> 2, an arithmetic shift of the   *)
(* outputs of the call before and of the call before that, and prev_output  *)
(* becomes output; its phase on this call is                                *)
(* phase_out + (feedback_buf >> (7 - mod_in_level)) in 10 bits when         *)
(* mod_in_level is not 0, and phase_out when it is 0.                       *)
(***************************************************************************)
C26_Slot0Feedback ==
    [][ticks' = ticks + 1 =>
          \A ch \in 0 .. NumChannels - 1 :
              FeedbackStep(channels[ch].slots[0], channels'[ch].slots[0])]_vars

\* slot 0 of channel 0 feeds back a negative sum of two different outputs
\* that moves its phase
C26_Witness ==
    /\ ticks >= 3
    /\ channels[0].slots[0].mod_in_level = 5
    /\ channels[0].slots[0].feedback_buf < 0
    /\ channels[0].slots[0].feedback_buf % 4 # 0
    /\ Shr(channels[0].slots[0].feedback_buf, 2) % 1024 # 0
    /\ channels[0].slots[0].output # channels[0].slots[0].prev_output

(***************************************************************************)
(* The envelope timer up to and across its wrap.  ESFM_update_timers reads  *)
(* and writes eight fields of the chip and nothing else, and nothing else   *)
(* writes them, so only these fields are followed.  eg_timer advances on    *)
(* every second call: it reaches 2^36 - 1 after 2^37 - 2 calls.  One run    *)
(* starts from ESFM_init, the other from the timers a chip has after        *)
(* 2^37 - 2 * DitherLead calls.                                             *)
(***************************************************************************)
TimerFields ==
    { "global_timer", "tremolo_pos", "tremolo", "vibrato_pos",
      "eg_clocks", "eg_timer", "eg_timer_overflow", "eg_tick" }

TimersOf(c) == [ f \in TimerFields |-> c[f] ]

DitherLead == 32

DitherFrames == 16500

CeilDiv(a, b) == (a + b - 1) \div b

\* The timers after 2^37 - behind calls, behind odd: global_timer counts the
\* calls modulo 1024; tremolo_pos counts every 64th call modulo 210 and
\* 2^31 = 128 modulo 210; vibrato_pos counts every 1024th call modulo 8;
\* eg_tick is the parity of the count and eg_timer half the count.  eg_clocks
\* is written anew by the next call.
TimersBehind(behind) ==
    [ global_timer |-> (0 - behind) % 1024,
      tremolo_pos |-> (128 - CeilDiv(behind, 64)) % 210,
      tremolo |-> TremoloWave((128 - CeilDiv(behind, 64)) % 210),
      vibrato_pos |-> (0 - CeilDiv(behind, 1024)) % 8,
      eg_clocks |-> 0,
      eg_timer |-> [ hi |-> Pow2(LimbBits) - 1,
                     lo |-> Pow2(LimbBits) - ((behind + 1) \div 2) ],
      eg_timer_overflow |-> 0,
      eg_tick |-> 1 ]

\* The timers after 2^37 - 2 * lead calls
LateTimers(lead) == ESFM_update_timers(TimersBehind(2 * lead + 1))

InitDither ==
    /\ chip \in { TimersOf(ESFM_init.chip), LateTimers(DitherLead) }
    /\ channels = << >>
    /\ buf = << 0, 0 >>
    /\ fast_bits = 64
    /\ host = [ script |-> [ name |-> "dither" ], ip |-> 1, rep |-> 0 ]
    /\ ticks = 0
    /\ heard = 0

\* The timer update that ends an ESFM_generate call
HostClock ==
    /\ host.script.name = "dither"
    /\ host.rep < DitherFrames
    /\ chip' = ESFM_update_timers(chip)
    /\ host' = [ host EXCEPT !.rep = @ + 1 ]
    /\ ticks' = ticks + 1
    /\ UNCHANGED << channels, buf, fast_bits, heard >>

NextDither == HostClock

SpecDither == InitDither /\ [][NextDither]_vars

\* 2^36 - 1
Timer36Ones == [ hi |-> Pow2(LimbBits) - 1, lo |-> Pow2(LimbBits) - 1 ]

\* s + 1 for a timer that is not 0 and has s <= 12 trailing zero bits, else 0
ClocksOf(timer) ==
    IF \E s \in 0 .. 12 : timer.lo % Pow2(s + 1) = Pow2(s)
        THEN 1 + CHOOSE s \in 0 .. 12 : timer.lo % Pow2(s + 1) = Pow2(s)
        ELSE 0

\* One call of ESFM_update_timers as far as the envelope timer goes
DitherStep(before, after) ==
    /\ after.eg_tick = 1 - before.eg_tick
    /\ after.eg_clocks = ClocksOf(before.eg_timer)
    /\ IF before.eg_tick = 1 \/ before.eg_timer_overflow = 1
          THEN IF before.eg_timer = Timer36Ones
                  THEN /\ after.eg_timer = [ hi |-> 0, lo |-> 0 ]
                       /\ after.eg_timer_overflow = 1
                  ELSE /\ after.eg_timer.lo = (before.eg_timer.lo + 1) % Pow2(LimbBits)
                       /\ after.eg_timer.hi =
                             before.eg_timer.hi + (IF after.eg_timer.lo = 0 THEN 1 ELSE 0)
                       /\ after.eg_timer_overflow = 0
          ELSE /\ after.eg_timer = before.eg_timer
               /\ after.eg_timer_overflow = before.eg_timer_overflow
    /\ after.eg_timer.hi \in 0 .. Pow2(LimbBits) - 1
    /\ after.eg_timer.lo \in 0 .. Pow2(LimbBits) - 1
    /\ after.eg_clocks \in 0 .. 13

(***************************************************************************)
(* C27.  Every call toggles eg_tick; eg_timer advances exactly on the calls *)
(* that find eg_tick or eg_timer_overflow set; the advance from 2^36 - 1    *)
(* goes to 0 and sets eg_timer_overflow, every other advance clears it;     *)
(* eg_clocks is s + 1 for the number s <= 12 of trailing zero bits of the   *)
(* eg_timer the call found, and 0 when that eg_timer is 0 or s > 12.  So    *)
(* eg_timer stays below 2^36 and eg_clocks within 0 .. 13.                  *)
(***************************************************************************)
C27_DitherTimer == [][ticks' = ticks + 1 => DitherStep(chip, chip')]_vars

\* the timer has wrapped from 2^36 - 1 to 0 and the overflow is set
C27_Witness ==
    /\ ticks > 0
    /\ chip.eg_timer = [ hi |-> 0, lo |-> 0 ]
    /\ chip.eg_timer_overflow = 1
    /\ chip.eg_tick = 0

====
